---- MODULE Spec2Model ----
(***************************************************************************)
(* Model of the in-memory transformation pipeline of the Loki/Prometheus   *)
(* extractor: DataFilterService (filtering), FieldExtractor (extraction)   *)
(* and DataAggregator (grouping and aggregation).                          *)
(*                                                                         *)
(* Representation.                                                         *)
(*  - A JavaScript string is a sequence of one-character strings, so that  *)
(*    concatenation, prefixes, case folding and parsing are computed.      *)
(*  - A JavaScript value is a tagged record: Num (a rational n/d in lowest *)
(*    terms, d > 0), Str, Obj (a mapping from keys to values), Arr, Bool,  *)
(*    Null, Undef, NaN, Inf, Date and Func (an inherited member).          *)
(*  - An object (labels, metadata, a structured value) is a function from  *)
(*    its own keys to values.  In the aggregator "k in o" is               *)
(*    k \in DOMAIN o; extractNestedValue also sees the inherited members   *)
(*    InheritedKeys and the length of an array.  An optional               *)
(*    labels/metadata that is undefined behaves in all the code modelled   *)
(*    here as the empty object and is represented by it.                   *)
(*  - A QueryResult is [timestamp, value, labels, metadata].               *)
(*  - A call that raises returns a Throw value.                            *)
(*  - Timestamps are small naturals; their unit is irrelevant to grouping, *)
(*    ordering and the min/max summaries.                                  *)
(***************************************************************************)
EXTENDS Integers, Sequences, FiniteSets, TLC

VARIABLES input, op, cfg, rules, exts, output, inputAfter, pValues, pParam, pResult,
          second, extracted, nObj, nPath, nResult, fmtCall, mainRun, sheetsCall

vars == <<input, op, cfg, rules, exts, output, inputAfter, pValues, pParam, pResult,
          second, extracted, nObj, nPath, nResult, fmtCall, mainRun, sheetsCall>>

----------------------------------------------------------------------------
(* Bounds of the model *)

MaxLen == 3

(* The longest batch given to a DataFilterService or a FieldExtractor on its own *)
MaxBatch == 2

(* The most decimals of a number that is rendered as text *)
MaxDecimals == 6

(* The longest path given to extractNestedValue on its own, in segments *)
MaxSegments == 2

(* The most sources of a configuration *)
MaxSources == 3

(* The most lines of a CSV content *)
MaxRows == 3

----------------------------------------------------------------------------
(* Generic sequence helpers *)

EmptyObj == [k \in {} |-> 0]

(* The elements of s whose mask entry is TRUE, in order *)
RECURSIVE SelectMask(_, _)
SelectMask(s, mask) ==
  IF s = <<>> THEN <<>>
  ELSE (IF Head(mask) THEN <<Head(s)>> ELSE <<>>) \o SelectMask(Tail(s), Tail(mask))

Filter(s, P(_)) == SelectMask(s, [i \in 1..Len(s) |-> P(s[i])])

Map(s, F(_)) == [i \in 1..Len(s) |-> F(s[i])]

RECURSIVE SumSeq(_)
SumSeq(s) == IF s = <<>> THEN 0 ELSE Head(s) + SumSeq(Tail(s))

RECURSIVE SeqsUpTo(_, _)
SeqsUpTo(S, n) ==
  IF n = 0 THEN {<<>>}
  ELSE LET shorter == SeqsUpTo(S, n - 1)
       IN  shorter \cup {Append(s, x) : s \in {t \in shorter : Len(t) = n - 1}, x \in S}

IsPrefix(p, s) == Len(p) <= Len(s) /\ SubSeq(s, 1, Len(p)) = p

IsSuffix(p, s) == Len(p) <= Len(s) /\ SubSeq(s, Len(s) - Len(p) + 1, Len(s)) = p

IsInfix(p, s) == \E i \in 0..(Len(s) - Len(p)) : SubSeq(s, i + 1, i + Len(p)) = p

----------------------------------------------------------------------------
(* Numbers: rationals n/d in lowest terms *)

Abs(x) == IF x < 0 THEN -x ELSE x

RECURSIVE GCD(_, _)
GCD(a, b) == IF b = 0 THEN a ELSE GCD(b, a % b)

Rat(n, d) ==
  LET g == GCD(Abs(n), Abs(d))
      s == IF d < 0 THEN -1 ELSE 1
  IN  [t |-> "num", n |-> (s * n) \div g, d |-> (s * d) \div g]

Num(n) == [t |-> "num", n |-> n, d |-> 1]
Str(s) == [t |-> "str", s |-> s]
Obj(f) == [t |-> "obj", f |-> f]
Arr(a) == [t |-> "arr", a |-> a]
Bool(b) == [t |-> "bool", b |-> b]
Null == [t |-> "null"]
Undef == [t |-> "undef"]
NaN == [t |-> "nan"]
Inf == [t |-> "inf"]
DateOf(ms) == [t |-> "date", ms |-> ms, valid |-> TRUE]
InvalidDate == [t |-> "date", ms |-> 0, valid |-> FALSE]

(* A call that raises, and a call that returns an array of records *)
Throw(m) == [t |-> "throw", msg |-> m]
IsThrow(x) == x.t = "throw"
Ok(recs) == [t |-> "ok", recs |-> recs]

IsNum(v) == v.t = "num"

RatAdd(a, b) == Rat(a.n * b.d + b.n * a.d, a.d * b.d)
RatMul(a, b) == Rat(a.n * b.n, a.d * b.d)
RatDiv(a, b) == Rat(a.n * b.d, a.d * b.n)
RatLess(a, b) == a.n * b.d < b.n * a.d
RatLeq(a, b) == a.n * b.d <= b.n * a.d
RatFloor(a) == a.n \div a.d

(* typeof v === 'object': objects, arrays and null *)
TypeofObject(v) == v.t \in {"obj", "arr", "null", "date"}

(* The truthiness of a value *)
Truthy(v) ==
  CASE v.t = "num" -> v.n # 0
    [] v.t = "str" -> v.s # <<>>
    [] v.t = "bool" -> v.b
    [] v.t \in {"null", "undef", "nan"} -> FALSE
    [] OTHER -> TRUE

----------------------------------------------------------------------------
(* Strings: sequences of characters *)

Digits == <<"0", "1", "2", "3", "4", "5", "6", "7", "8", "9">>

DigitChars == {Digits[i] : i \in 1..Len(Digits)}

DigitVal(c) == (CHOOSE i \in 1..Len(Digits) : Digits[i] = c) - 1

UpperChars == <<"A", "B", "C", "D", "E", "F", "G", "H", "I", "J", "K", "L", "M",
                "N", "O", "P", "Q", "R", "S", "T", "U", "V", "W", "X", "Y", "Z">>

LowerChars == <<"a", "b", "c", "d", "e", "f", "g", "h", "i", "j", "k", "l", "m",
                "n", "o", "p", "q", "r", "s", "t", "u", "v", "w", "x", "y", "z">>

LowerChar(c) ==
  IF \E i \in 1..Len(UpperChars) : UpperChars[i] = c
  THEN LowerChars[CHOOSE i \in 1..Len(UpperChars) : UpperChars[i] = c]
  ELSE c

(* String.prototype.toLowerCase *)
toLowerCase(s) == [i \in 1..Len(s) |-> LowerChar(s[i])]

UpperChar(c) ==
  IF \E i \in 1..Len(LowerChars) : LowerChars[i] = c
  THEN UpperChars[CHOOSE i \in 1..Len(LowerChars) : LowerChars[i] = c]
  ELSE c

(* String.prototype.toUpperCase *)
toUpperCase(s) == [i \in 1..Len(s) |-> UpperChar(s[i])]

(* String.prototype.charCodeAt, for the characters of the model *)
charCodeAt(c) ==
  IF c \in DigitChars THEN 48 + DigitVal(c)
  ELSE IF UpperChar(c) # c THEN 96 + (CHOOSE i \in 1..Len(LowerChars) : LowerChars[i] = c)
  ELSE IF LowerChar(c) # c THEN 64 + (CHOOSE i \in 1..Len(UpperChars) : UpperChars[i] = c)
  ELSE CASE c = " " -> 32 [] c = "\"" -> 34 [] c = "$" -> 36 [] c = "(" -> 40
         [] c = ")" -> 41 [] c = "*" -> 42 [] c = "+" -> 43 [] c = "," -> 44
         [] c = "-" -> 45 [] c = "." -> 46 [] c = ":" -> 58 [] c = "[" -> 91
         [] c = "\\" -> 92 [] c = "]" -> 93 [] c = "^" -> 94 [] c = "_" -> 95
         [] c = "{" -> 123 [] c = "|" -> 124 [] c = "}" -> 125

RECURSIVE NatToStr(_)
NatToStr(n) ==
  IF n < 10 THEN <<Digits[n + 1]>>
  ELSE NatToStr(n \div 10) \o <<Digits[(n % 10) + 1]>>

IntToStr(n) == IF n < 0 THEN <<"-">> \o NatToStr(-n) ELSE NatToStr(n)

(* The length of the longest prefix of s made of digits *)
RECURSIVE DigitPrefixLen(_)
DigitPrefixLen(s) ==
  IF s # <<>> /\ Head(s) \in DigitChars THEN 1 + DigitPrefixLen(Tail(s)) ELSE 0

RECURSIVE DigitsToNat(_)
DigitsToNat(s) ==
  IF s = <<>> THEN 0 ELSE DigitsToNat(SubSeq(s, 1, Len(s) - 1)) * 10 + DigitVal(s[Len(s)])

RECURSIVE Pow10(_)
Pow10(k) == IF k = 0 THEN 1 ELSE 10 * Pow10(k - 1)

RECURSIVE TrimLeft(_)
TrimLeft(s) == IF s # <<>> /\ Head(s) = " " THEN TrimLeft(Tail(s)) ELSE s

(* parseFloat: leading blanks, an optional sign, digits, an optional fraction; *)
(* the longest such prefix is the number, and NaN when there is no digit.      *)
(* (Exponents and the literal Infinity are not in the strings of this model.)  *)
parseFloat(s) ==
  LET Signed(neg, mag) == IF neg THEN Rat(-mag.n, mag.d) ELSE mag
      (* u is the text after the sign, il and fl the numbers of its integer *)
      (* and fraction digits                                                 *)
      Value(neg, u, il, fl) ==
        IF il = 0 /\ fl = 0 THEN NaN
        ELSE Signed(neg, Rat(DigitsToNat(SubSeq(u, 1, il)) * Pow10(fl)
                               + DigitsToNat(SubSeq(u, il + 2, il + 1 + fl)),
                             Pow10(fl)))
      Fraction(neg, u, il) ==
        Value(neg, u, il,
              IF il < Len(u) /\ u[il + 1] = "." THEN DigitPrefixLen(SubSeq(u, il + 2, Len(u)))
              ELSE 0)
      Unsigned(neg, u) == Fraction(neg, u, DigitPrefixLen(u))
      Trimmed(t) ==
        Unsigned(t # <<>> /\ Head(t) = "-",
                 IF t # <<>> /\ Head(t) \in {"-", "+"} THEN Tail(t) ELSE t)
  IN  Trimmed(TrimLeft(s))

RECURSIVE PadZeros(_, _)
PadZeros(s, k) == IF Len(s) >= k THEN s ELSE PadZeros(<<"0">> \o s, k)

(* The decimal text of a number with k decimals: 1.5, -0.25 *)
DecimalToStr(r, k) ==
  LET scaled == (Abs(r.n) * Pow10(k)) \div r.d
  IN  (IF r.n < 0 THEN <<"-">> ELSE <<>>)
      \o NatToStr(scaled \div Pow10(k)) \o <<".">>
      \o PadZeros(NatToStr(scaled % Pow10(k)), k)

(* String(v) for the values of this model.  The rendering of a Date stands   *)
(* for Date.prototype.toString: a text that is a function of the instant.   *)
ObjectString == <<"[", "o", "b", "j", "e", "c", "t", " ", "O", "b", "j", "e", "c", "t", "]">>

RECURSIVE String(_)
RECURSIVE JoinValues(_)

String(v) ==
  CASE v.t = "str" -> v.s
    [] v.t = "num" /\ v.d = 1 -> IntToStr(v.n)
    [] v.t = "num" /\ v.d # 1 /\ (\E k \in 1..MaxDecimals : Pow10(k) % v.d = 0) ->
         DecimalToStr(v, CHOOSE k \in 1..MaxDecimals :
                           Pow10(k) % v.d = 0 /\ \A j \in 1..(k - 1) : Pow10(j) % v.d # 0)
    [] v.t = "obj" -> ObjectString
    [] v.t = "arr" -> JoinValues(v.a)
    [] v.t = "bool" -> IF v.b THEN <<"t", "r", "u", "e">> ELSE <<"f", "a", "l", "s", "e">>
    [] v.t = "null" -> <<"n", "u", "l", "l">>
    [] v.t = "undef" -> <<"u", "n", "d", "e", "f", "i", "n", "e", "d">>
    [] v.t = "nan" -> <<"N", "a", "N">>
    [] v.t = "inf" -> <<"I", "n", "f", "i", "n", "i", "t", "y">>
    [] v.t = "date" -> IF v.valid THEN <<"D", "a", "t", "e", " ">> \o NatToStr(v.ms)
                       ELSE <<"I", "n", "v", "a", "l", "i", "d", " ", "D", "a", "t", "e">>
    [] v.t = "func" -> <<"f", "u", "n", "c", "t", "i", "o", "n", " ">> \o v.name

(* Array.prototype.join(','): null and undefined elements render empty *)
JoinValues(a) ==
  IF a = <<>> THEN <<>>
  ELSE (IF a[1].t \in {"null", "undef"} THEN <<>> ELSE String(a[1]))
       \o (IF Len(a) = 1 THEN <<>> ELSE <<",">> \o JoinValues(Tail(a)))

RECURSIVE Join(_, _)
Join(parts, sep) ==
  IF parts = <<>> THEN <<>>
  ELSE IF Len(parts) = 1 THEN parts[1]
  ELSE parts[1] \o sep \o Join(Tail(parts), sep)

----------------------------------------------------------------------------
(* Names used by the code *)

K_value == <<"v", "a", "l", "u", "e">>
K_timestamp == <<"t", "i", "m", "e", "s", "t", "a", "m", "p">>
K_aggregation == <<"a", "g", "g", "r", "e", "g", "a", "t", "i", "o", "n">>
K_count == <<"c", "o", "u", "n", "t">>
K_rate == <<"r", "a", "t", "e">>
K_metrics == <<"m", "e", "t", "r", "i", "c", "s">>
K_minTimestamp == <<"m", "i", "n", "T", "i", "m", "e", "s", "t", "a", "m", "p">>
K_maxTimestamp == <<"m", "a", "x", "T", "i", "m", "e", "s", "t", "a", "m", "p">>
K_extractedFields == <<"e", "x", "t", "r", "a", "c", "t", "e", "d", "F", "i", "e", "l", "d", "s">>
K_multiMetric == <<"m", "u", "l", "t", "i", "-", "m", "e", "t", "r", "i", "c">>
K_formatted == <<"_", "f", "o", "r", "m", "a", "t", "t", "e", "d">>

(* AGGREGATION_FUNCTIONS *)
AGGREGATION_FUNCTIONS == {"sum", "avg", "min", "max", "count", "percentile", "last", "first"}

(* A function name as the string the code writes into labels and metadata *)
FuncChars(f) ==
  CASE f = "sum" -> <<"s", "u", "m">>
    [] f = "avg" -> <<"a", "v", "g">>
    [] f = "min" -> <<"m", "i", "n">>
    [] f = "max" -> <<"m", "a", "x">>
    [] f = "count" -> K_count
    [] f = "percentile" -> <<"p", "e", "r", "c", "e", "n", "t", "i", "l", "e">>
    [] f = "last" -> <<"l", "a", "s", "t">>
    [] f = "first" -> <<"f", "i", "r", "s", "t">>
    [] f = "median" -> <<"m", "e", "d", "i", "a", "n">>

(* {...o, k: v} *)
With(o, k, v) == [x \in (DOMAIN o) \cup {k} |-> IF x = k THEN v ELSE o[x]]

(* {...a, ...b}: the keys of b win *)
Spread(a, b) == [x \in (DOMAIN a) \cup (DOMAIN b) |-> IF x \in DOMAIN b THEN b[x] ELSE a[x]]

----------------------------------------------------------------------------
(* Sorting: Array.prototype.sort with a comparator is stable *)

RECURSIVE InsertByTimestamp(_, _)
InsertByTimestamp(sorted, x) ==
  IF sorted = <<>> THEN <<x>>
  ELSE IF x.timestamp < sorted[Len(sorted)].timestamp
       THEN Append(InsertByTimestamp(SubSeq(sorted, 1, Len(sorted) - 1), x), sorted[Len(sorted)])
       ELSE Append(sorted, x)

RECURSIVE SortByTimestampFrom(_, _, _)
SortByTimestampFrom(s, i, acc) ==
  IF i > Len(s) THEN acc ELSE SortByTimestampFrom(s, i + 1, InsertByTimestamp(acc, s[i]))

(* sort((a, b) => a.timestamp - b.timestamp) *)
SortByTimestamp(s) == SortByTimestampFrom(s, 1, <<>>)

RECURSIVE InsertNum(_, _)
InsertNum(sorted, x) ==
  IF sorted = <<>> THEN <<x>>
  ELSE IF RatLess(x, sorted[Len(sorted)])
       THEN Append(InsertNum(SubSeq(sorted, 1, Len(sorted) - 1), x), sorted[Len(sorted)])
       ELSE Append(sorted, x)

RECURSIVE SortNumsFrom(_, _, _)
SortNumsFrom(s, i, acc) ==
  IF i > Len(s) THEN acc ELSE SortNumsFrom(s, i + 1, InsertNum(acc, s[i]))

(* sort((a, b) => a - b) *)
SortNums(s) == SortNumsFrom(s, 1, <<>>)

(* Math.min replaced by the first element *)
MinOf_First(s) == s[1]

RECURSIVE MinOf(_)
MinOf(s) ==
  IF Len(s) = 1 THEN s[1]
  ELSE LET m == MinOf(Tail(s)) IN IF s[1] <= m THEN s[1] ELSE m

RECURSIVE MaxOf(_)
MaxOf(s) ==
  IF Len(s) = 1 THEN s[1]
  ELSE LET m == MaxOf(Tail(s)) IN IF s[1] >= m THEN s[1] ELSE m

Timestamps(group) == [i \in 1..Len(group) |-> group[i].timestamp]

----------------------------------------------------------------------------
(* date-fns format, as used by formatDate: the rendering of a date by a     *)
(* pattern is the same for all timestamps within one period of the          *)
(* pattern's finest field.  The model has two patterns: "t" renders every   *)
(* tick, "T" renders periods of two ticks.                                  *)

formatDate(ts, dateFormat) ==
  IF dateFormat = <<"T">> THEN <<"T">> \o NatToStr(ts \div 2) ELSE <<"t">> \o NatToStr(ts)

----------------------------------------------------------------------------
(* DataAggregator                                                           *)
(*                                                                          *)
(* An AggregationConfig is Undef (no config) or                             *)
(*   [t |-> "config", groupBy, metrics, function, percentile]               *)
(* where groupBy is a sequence of [field, dateFormat] (a plain string entry *)
(* is an entry without dateFormat; dateFormat <<>> is "not set"), metrics a *)
(* sequence of [kind |-> "string", name] or [kind |-> "config", name,       *)
(* field, function, percentile] (field <<>> is "not set"), function a name  *)
(* or "" when not set, and percentile a Num or Undef.  An absent groupBy or *)
(* metrics list is the empty sequence: the code treats both alike.          *)

(* x / y on numbers: a zero divisor gives Infinity, or NaN for 0 / 0 *)
Divide(a, b) ==
  IF b.n = 0 THEN (IF a.n = 0 THEN NaN ELSE Inf) ELSE RatDiv(a, b)

Segment(field, value) == field \o <<":">> \o String(value)

(* The segment of a groupBy entry that is looked up in labels only, not in  *)
(* metadata                                                                 *)
GroupKeyPart_LabelsOnly(item, g) ==
  IF g.field = K_timestamp
  THEN <<Segment(g.field, IF g.dateFormat # <<>>
                          THEN Str(formatDate(item.timestamp, g.dateFormat))
                          ELSE Num(item.timestamp))>>
  ELSE IF g.field \in DOMAIN item.labels
  THEN <<Segment(g.field, IF g.dateFormat # <<>> /\ item.labels[g.field].t = "num"
                          THEN Str(formatDate(item.labels[g.field].n, g.dateFormat))
                          ELSE item.labels[g.field])>>
  ELSE <<>>

GroupKeyPart(item, g) ==
  IF g.field = K_timestamp
  THEN <<Segment(g.field, IF g.dateFormat # <<>>
                          THEN Str(formatDate(item.timestamp, g.dateFormat))
                          ELSE Num(item.timestamp))>>
  ELSE IF g.field \in DOMAIN item.labels
  THEN LET value == item.labels[g.field]
       IN  <<Segment(g.field, IF g.dateFormat # <<>> /\ value.t = "num" /\ value.d = 1
                               THEN Str(formatDate(value.n, g.dateFormat))
                               ELSE value)>>
  ELSE IF g.field \in DOMAIN item.metadata
  THEN <<Segment(g.field, item.metadata[g.field])>>
  ELSE <<>>

RECURSIVE KeyParts(_, _, _)
KeyParts(item, groupBy, i) ==
  IF i > Len(groupBy) THEN <<>>
  ELSE GroupKeyPart(item, groupBy[i]) \o KeyParts(item, groupBy, i + 1)

generateGroupKey(item, groupBy) == Join(KeyParts(item, groupBy, 1), <<"|">>)

(* extractFieldValue that does not look into metadata.extractedFields *)
extractFieldValue_NoExtractedFields(item, field) ==
  IF field \in DOMAIN item.labels THEN item.labels[field]
  ELSE IF field \in DOMAIN item.metadata THEN item.metadata[field]
  ELSE IF field = K_value THEN item.value
  ELSE IF field = K_timestamp THEN Num(item.timestamp)
  ELSE Undef

extractFieldValue(item, field) ==
  IF field \in DOMAIN item.labels THEN item.labels[field]
  ELSE IF field \in DOMAIN item.metadata THEN item.metadata[field]
  ELSE IF K_extractedFields \in DOMAIN item.metadata
          /\ item.metadata[K_extractedFields].t = "obj"
          /\ field \in DOMAIN item.metadata[K_extractedFields].f
       THEN item.metadata[K_extractedFields].f[field]
  ELSE IF field = K_value THEN item.value
  ELSE IF field = K_timestamp THEN Num(item.timestamp)
  ELSE Undef

(* calculatePercentile by nearest rank: the element at floor(r), no interpolation *)
calculatePercentile_NearestRank(values, percentile) ==
  LET sorted == SortNums(values)
      index  == Rat(percentile * (Len(sorted) - 1), 100)
  IN  [ret |-> sorted[RatFloor(index) + 1], data |-> sorted]

(* The result of calculatePercentile and the array it was given, after the call *)
calculatePercentile(values, percentile) ==
  LET (* sorted[lower] * (1 - weight) + sorted[upper] * weight, upper being *)
      (* lower + 1 when index is not an integer                             *)
      Interpolated(sorted, lower, weight) ==
        RatAdd(RatMul(sorted[lower + 1], RatAdd(Num(1), Rat(-weight.n, weight.d))),
               RatMul(sorted[lower + 2], weight))
      AtIndex(sorted, index) ==
        IF index.d = 1 THEN sorted[index.n + 1]
        ELSE Interpolated(sorted, RatFloor(index), RatAdd(index, Num(-RatFloor(index))))
      Result(sorted) ==
        [ret  |-> AtIndex(sorted, Rat(percentile * (Len(sorted) - 1), 100)),
         data |-> sorted]
  IN  Result(SortNums(values))

(* d => number | parseFloat(string) | NaN *)
NumericCoerce(v) ==
  IF v.t \in {"num", "nan"} THEN v
  ELSE IF v.t = "str" THEN parseFloat(v.s)
  ELSE NaN

IsNotNaN(v) == v.t # "nan"

NumericValues(data) == Filter([i \in 1..Len(data) |-> NumericCoerce(data[i].value)], IsNotNaN)

RECURSIVE RatSum(_)
RatSum(s) == IF s = <<>> THEN Num(0) ELSE RatAdd(Head(s), RatSum(Tail(s)))

(* percentile || 95 *)
PercentileOrDefault(percentile) ==
  IF percentile.t = "num" /\ percentile.n # 0 THEN percentile.n ELSE 95

(* The numeric branch of applyFunction *)
NumericResult(data, func, percentile) ==
  LET Reduced(numericValues) ==
        IF Len(numericValues) = 0 THEN Num(0)
        ELSE CASE func = "sum" -> RatSum(numericValues)
               [] func = "avg" -> RatDiv(RatSum(numericValues), Num(Len(numericValues)))
               [] func = "min" -> SortNums(numericValues)[1]
               [] func = "max" -> SortNums(numericValues)[Len(numericValues)]
               [] func = "count" -> Num(Len(numericValues))
               [] func = "percentile" ->
                    calculatePercentile(numericValues, PercentileOrDefault(percentile)).ret
               [] OTHER -> Throw("Unknown aggregation function")
  IN  Reduced(NumericValues(data))

(* applyFunction without the early return for an empty numericValues: the   *)
(* reductions then run on no value at all                                   *)
applyFunction_NoEmptyGuard(data, func, percentile) ==
  IF func \in {"last", "first"}
  THEN LET sorted == SortByTimestamp(data)
           value  == IF func = "last" THEN sorted[Len(sorted)].value ELSE sorted[1].value
       IN  [ret  |-> IF Len(sorted) = 0 THEN Str(<<>>)
                     ELSE IF TypeofObject(value) THEN Str(<<>>)
                     ELSE value,
            data |-> data]
  ELSE [ret  |-> IF Len(NumericValues(data)) > 0 THEN NumericResult(data, func, percentile)
                 ELSE CASE func = "sum" -> Num(0)
                        [] func = "avg" -> NaN
                        [] func = "min" -> Inf
                        [] func = "max" -> Inf
                        [] func = "count" -> Num(0)
                        [] func = "percentile" -> Undef
                        [] OTHER -> Throw("Unknown aggregation function"),
        data |-> data]

(* applyFunction that takes first and last in array order, without sorting *)
applyFunction_NoSort(data, func, percentile) ==
  IF func \in {"last", "first"}
  THEN LET value == IF func = "last" THEN data[Len(data)].value ELSE data[1].value
       IN  [ret  |-> IF Len(data) = 0 THEN Str(<<>>)
                     ELSE IF TypeofObject(value) THEN Str(<<>>)
                     ELSE value,
            data |-> data]
  ELSE [ret |-> NumericResult(data, func, percentile), data |-> data]

(* applyFunction that sorts data itself instead of a copy: data.sort(...) *)
applyFunction_SortInPlace(data, func, percentile) ==
  IF func \in {"last", "first"}
  THEN LET sorted == SortByTimestamp(data)
           value  == IF func = "last" THEN sorted[Len(sorted)].value ELSE sorted[1].value
       IN  [ret  |-> IF Len(sorted) = 0 THEN Str(<<>>)
                     ELSE IF TypeofObject(value) THEN Str(<<>>)
                     ELSE value,
            data |-> sorted]
  ELSE [ret |-> NumericResult(data, func, percentile), data |-> data]

(* The value applyFunction returns (or the Throw it raises) and the array   *)
(* data after the call: first/last sort a copy, the numeric functions work  *)
(* on the freshly mapped numericValues, so data is left as it was.          *)
applyFunction(data, func, percentile) ==
  LET Raw(value) == IF TypeofObject(value) THEN Str(<<>>) ELSE value
      Boundary(sorted) ==
        IF Len(sorted) = 0 THEN Str(<<>>)
        ELSE Raw(IF func = "last" THEN sorted[Len(sorted)].value ELSE sorted[1].value)
  IN  IF func \in {"last", "first"}
      THEN [ret |-> Boundary(SortByTimestamp(data)), data |-> data]
      ELSE [ret |-> NumericResult(data, func, percentile), data |-> data]

(* The <field>_formatted labels added for date-formatted groupBy entries *)
RECURSIVE FormattedLabels(_, _, _, _)
FormattedLabels(groupLabels, first, groupBy, i) ==
  IF i > Len(groupBy) THEN groupLabels
  ELSE LET g == groupBy[i]
           next ==
             IF g.field = K_timestamp /\ g.dateFormat # <<>>
             THEN With(groupLabels, g.field \o K_formatted,
                       Str(formatDate(first.timestamp, g.dateFormat)))
             ELSE IF g.dateFormat # <<>> /\ g.field \in DOMAIN first.labels
                     /\ first.labels[g.field].t = "num" /\ first.labels[g.field].d = 1
             THEN With(groupLabels, g.field \o K_formatted,
                       Str(formatDate(first.labels[g.field].n, g.dateFormat)))
             ELSE groupLabels
       IN  FormattedLabels(next, first, groupBy, i + 1)

SummaryMetadata(first, group, aggregationType) ==
  LET timestamps == Timestamps(group)
  IN  With(With(With(With(first.metadata,
        K_aggregation, Str(aggregationType)),
        K_count, Num(Len(group))),
        K_minTimestamp, Num(MinOf(timestamps))),
        K_maxTimestamp, Num(MaxOf(timestamps)))

createAggregatedResultWithGrouping(group, value, aggregationType, groupBy) ==
  IF Len(group) = 0 THEN Throw("Cannot create aggregated result from empty group")
  ELSE LET first == group[1]
       IN  [timestamp |-> MinOf(Timestamps(group)),
            value     |-> value,
            labels    |-> FormattedLabels(With(first.labels, K_aggregation,
                                               Str(FuncChars(aggregationType))),
                                          first, groupBy, 1),
            metadata  |-> SummaryMetadata(first, group, FuncChars(aggregationType))]

createAggregatedResult(group, value, aggregationType) ==
  IF Len(group) = 0 THEN Throw("Cannot create aggregated result from empty group")
  ELSE LET first == group[1]
       IN  [timestamp |-> MinOf(Timestamps(group)),
            value     |-> value,
            labels    |-> With(first.labels, K_aggregation, Str(FuncChars(aggregationType))),
            metadata  |-> SummaryMetadata(first, group, FuncChars(aggregationType))]

(* The records applyAggregationFunction returns (or a Throw) and data after the call *)
applyAggregationFunction(data, func, percentile) ==
  LET Result(r) ==
        [ret  |-> IF IsThrow(r.ret) THEN r.ret
                  ELSE Ok(<<createAggregatedResult(r.data, r.ret, func)>>),
         data |-> r.data]
  IN  IF Len(data) = 0 THEN [ret |-> Ok(<<>>), data |-> data]
      ELSE Result(applyFunction(data, func, percentile))

(* item => ({...item, value: extractFieldValue(item, field)}), then the     *)
(* records whose value is not undefined                                      *)
HasValue(item) == item.value.t # "undef"

FieldData(group, field) ==
  Filter([i \in 1..Len(group) |-> [group[i] EXCEPT !.value = extractFieldValue(group[i], field)]],
         HasValue)

(* One iteration of the loop over config.metrics.  st is the loop's state:  *)
(* the metricValues collected so far and the bucket array (which the 'rate' *)
(* metric sorts in place), or the Throw that ended the loop.                *)
MetricStep(metric, st, config) ==
  LET (* metricValues[metric.name] = value, with the bucket array as it is then *)
      Collected(value, group) ==
        [t |-> "ok", metricValues |-> With(st.metricValues, metric.name, value), group |-> group]
      (* the result r of applyFunction on the bucket itself *)
      Applied(r) == IF IsThrow(r.ret) THEN r.ret ELSE Collected(r.ret, r.data)
      (* the result r of applyFunction on dataToAggregate, an array of its own *)
      AppliedToField(r) == IF IsThrow(r.ret) THEN r.ret ELSE Collected(r.ret, st.group)
      (* group.sort(...) sorts the bucket itself: sorted and group are one array *)
      Rate(sorted) ==
        Collected(Divide(Num(Len(sorted)),
                         Rat(sorted[Len(sorted)].timestamp - sorted[1].timestamp, 1000)),
                  sorted)
      FieldMetric(dataToAggregate) ==
        IF metric.function = "count" THEN Collected(Num(Len(dataToAggregate)), st.group)
        ELSE AppliedToField(applyFunction(dataToAggregate, metric.function, metric.percentile))
  IN  IF metric.kind = "string"
      THEN CASE metric.name = K_count -> Collected(Num(Len(st.group)), st.group)
             [] metric.name = K_rate -> Rate(SortByTimestamp(st.group))
             [] OTHER ->
                  IF config.function # ""
                  THEN Applied(applyFunction(st.group, config.function, config.percentile))
                  ELSE st
      ELSE IF metric.field # <<>> THEN FieldMetric(FieldData(st.group, metric.field))
      ELSE IF metric.function = "count" THEN Collected(Num(Len(st.group)), st.group)
      ELSE Applied(applyFunction(st.group, metric.function, metric.percentile))

RECURSIVE MetricsLoop(_, _, _, _)
MetricsLoop(metrics, i, st, config) ==
  IF i > Len(metrics) \/ IsThrow(st) THEN st
  ELSE MetricsLoop(metrics, i + 1, MetricStep(metrics[i], st, config), config)

(* The records aggregateGroup returns for one bucket (Ok), or a Throw *)
aggregateGroup(group, config) ==
  LET Single(r) ==
        IF IsThrow(r.ret) THEN r.ret
        ELSE Ok(<<createAggregatedResultWithGrouping(r.data, r.ret, config.function,
                                                     config.groupBy)>>)
      (* st is the state the loop over config.metrics ends in; timestamps    *)
      (* were taken from the bucket before the loop                          *)
      MultiMetric(st, timestamps) ==
        IF IsThrow(st) THEN st
        ELSE LET first == st.group[1]
             IN  Ok(<<[timestamp |-> MinOf(timestamps),
                       value     |-> Obj(st.metricValues),
                       labels    |-> FormattedLabels(first.labels, first, config.groupBy, 1),
                       metadata  |->
                         With(With(With(With(With(first.metadata,
                           K_aggregation, Str(K_multiMetric)),
                           K_metrics, Obj(st.metricValues)),
                           K_count, Num(Len(st.group))),
                           K_minTimestamp, Num(MinOf(timestamps))),
                           K_maxTimestamp, Num(MaxOf(timestamps)))]>>)
  IN  IF Len(config.metrics) = 0
      THEN IF config.function # ""
           THEN Single(applyFunction(group, config.function, config.percentile))
           ELSE Ok(group)
      ELSE MultiMetric(MetricsLoop(config.metrics, 1,
                                   [t |-> "ok", metricValues |-> EmptyObj, group |-> group],
                                   config),
                       Timestamps(group))

(* The keys with every new key put in front: the groups come out in the    *)
(* reverse of the order in which they were first seen                       *)
RECURSIVE GroupKeys_Prepend(_, _, _, _)
GroupKeys_Prepend(data, groupBy, i, keys) ==
  IF i > Len(data) THEN keys
  ELSE LET key == generateGroupKey(data[i], groupBy)
       IN  GroupKeys_Prepend(data, groupBy, i + 1,
                             IF \E j \in 1..Len(keys) : keys[j] = key THEN keys
                             ELSE <<key>> \o keys)

(* The Map of groupAndAggregate: its keys in insertion order *)
RECURSIVE GroupKeys(_, _, _, _)
GroupKeys(data, groupBy, i, keys) ==
  LET Seen(key) ==
        IF \E j \in 1..Len(keys) : keys[j] = key THEN keys ELSE Append(keys, key)
  IN  IF i > Len(data) THEN keys
      ELSE GroupKeys(data, groupBy, i + 1, Seen(generateGroupKey(data[i], groupBy)))

(* grouped.get(key): the records pushed under key, in input order *)
Bucket(data, groupBy, key) ==
  SelectMask(data, [i \in 1..Len(data) |-> generateGroupKey(data[i], groupBy) = key])

RECURSIVE AggregateBuckets(_, _, _, _, _)
AggregateBuckets(data, config, keys, i, results) ==
  LET Pushed(aggregated) ==
        IF IsThrow(aggregated) THEN aggregated
        ELSE AggregateBuckets(data, config, keys, i + 1, results \o aggregated.recs)
  IN  IF i > Len(keys) THEN Ok(results)
      ELSE Pushed(aggregateGroup(Bucket(data, config.groupBy, keys[i]), config))

(* The records groupAndAggregate returns (or a Throw) and data after the    *)
(* call: data is only iterated, the buckets are arrays of their own.        *)
groupAndAggregate(data, config) ==
  [ret  |-> AggregateBuckets(data, config, GroupKeys(data, config.groupBy, 1, <<>>), 1, <<>>),
   data |-> data]

(* aggregate that tests config.function before config.groupBy *)
aggregate_FunctionFirst(data, config) ==
  IF config.t = "undef" THEN [ret |-> Ok(data), data |-> data]
  ELSE IF config.function # "" THEN applyAggregationFunction(data, config.function, config.percentile)
  ELSE IF Len(config.groupBy) > 0 THEN groupAndAggregate(data, config)
  ELSE [ret |-> Ok(data), data |-> data]

(* The records aggregate returns (or a Throw) and data after the call *)
aggregate(data, config) ==
  IF config.t = "undef" THEN [ret |-> Ok(data), data |-> data]
  ELSE IF Len(config.groupBy) > 0 THEN groupAndAggregate(data, config)
  ELSE IF config.function # "" THEN applyAggregationFunction(data, config.function, config.percentile)
  ELSE [ret |-> Ok(data), data |-> data]

----------------------------------------------------------------------------
(* json-utils: extractNestedValue                                           *)
(* "key in value" holds for the own keys of value, for the length of an     *)
(* array, and for the names of the members that objects and arrays inherit  *)
(* from their prototypes, of which the model has constructor and toString;  *)
(* value[key] is then a function.                                           *)

(* path.split('.') *)
RECURSIVE SplitDot(_, _)
SplitDot(s, cur) ==
  IF s = <<>> THEN <<cur>>
  ELSE IF Head(s) = "." THEN <<cur>> \o SplitDot(Tail(s), <<>>)
  ELSE SplitDot(Tail(s), Append(cur, Head(s)))

IsAllDigits(key) == key # <<>> /\ \A i \in 1..Len(key) : key[i] \in DigitChars

K_length == <<"l", "e", "n", "g", "t", "h">>
K_constructor == <<"c", "o", "n", "s", "t", "r", "u", "c", "t", "o", "r">>
K_toString == <<"t", "o", "S", "t", "r", "i", "n", "g">>

InheritedKeys == {K_constructor, K_toString}

(* An inherited member: a function *)
Func(name) == [t |-> "func", name |-> name]

(* One iteration of the loop over keys: the next value, or Throw-free       *)
(* [t |-> "return"] when the loop returns undefined at once                 *)
NestedStep(value, key) ==
  IF value.t \in {"obj", "arr"}
  THEN IF value.t = "arr" /\ IsAllDigits(key)
       THEN LET index == DigitsToNat(key)
            IN  IF index < Len(value.a) THEN value.a[index + 1] ELSE Undef
       ELSE IF value.t = "obj" /\ key \in DOMAIN value.f THEN value.f[key]
       ELSE IF value.t = "arr" /\ key = K_length THEN Num(Len(value.a))
       ELSE IF key \in InheritedKeys THEN Func(key)
       ELSE [t |-> "return"]
  ELSE [t |-> "return"]

RECURSIVE NestedWalk(_, _, _)
NestedWalk(value, keys, i) ==
  IF i > Len(keys) THEN value
  ELSE LET next == NestedStep(value, keys[i])
       IN  IF next.t = "return" THEN Undef ELSE NestedWalk(next, keys, i + 1)

extractNestedValue(obj, path) ==
  IF obj.t \notin {"obj", "arr"} THEN Undef
  ELSE NestedWalk(obj, SplitDot(path, <<>>), 1)

----------------------------------------------------------------------------
(* Regular expressions, as far as the patterns of this model go: literal    *)
(* characters, '.', the classes \d and \D, an escaped character, a bracket  *)
(* class of characters and ranges (without negation and escapes), a postfix *)
(* '*', a leading '^' and a trailing '$'.  new RegExp raises a SyntaxError  *)
(* for a '*' with nothing to repeat, a '\' at the end of the pattern, a      *)
(* '[' without its ']', a range out of order in a class, and a '(' (the     *)
(* model has no groups).                                                    *)

(* The index of the first ']' of p from index i on, or 0 *)
RECURSIVE ClosingBracket(_, _)
ClosingBracket(p, i) ==
  IF i > Len(p) THEN 0
  ELSE IF p[i] = "]" THEN i
  ELSE ClosingBracket(p, i + 1)

(* The ranges of a bracket class: a-b is the range from a to b, any other   *)
(* character the range of itself; ok = FALSE for a range out of order       *)
RECURSIVE ClassRanges(_, _)
ClassRanges(content, acc) ==
  IF content = <<>> THEN [ok |-> TRUE, ranges |-> acc]
  ELSE IF Len(content) >= 3 /\ content[2] = "-"
  THEN IF charCodeAt(content[1]) > charCodeAt(content[3]) THEN [ok |-> FALSE, ranges |-> acc]
       ELSE ClassRanges(SubSeq(content, 4, Len(content)),
                        Append(acc, [lo |-> charCodeAt(content[1]), hi |-> charCodeAt(content[3])]))
  ELSE ClassRanges(Tail(content),
                   Append(acc, [lo |-> charCodeAt(content[1]), hi |-> charCodeAt(content[1])]))

RECURSIVE RegexTokens(_, _)
RegexTokens(p, toks) ==
  IF p = <<>> THEN [ok |-> TRUE, toks |-> toks]
  ELSE LET c == Head(p)
       IN  CASE c = "\\" ->
                  IF Len(p) = 1 THEN [ok |-> FALSE, toks |-> toks]
                  ELSE RegexTokens(SubSeq(p, 3, Len(p)),
                         Append(toks, [kind |-> IF p[2] = "d" THEN "digit"
                                                ELSE IF p[2] = "D" THEN "nondigit"
                                                ELSE "lit",
                                       c |-> p[2], star |-> FALSE]))
             [] c = "*" ->
                  IF toks = <<>> \/ toks[Len(toks)].star THEN [ok |-> FALSE, toks |-> toks]
                  ELSE RegexTokens(Tail(p), [toks EXCEPT ![Len(toks)].star = TRUE])
             [] c = "[" ->
                  LET Class(close, parsed) ==
                        IF close = 0 \/ ~parsed.ok THEN [ok |-> FALSE, toks |-> toks]
                        ELSE RegexTokens(SubSeq(p, close + 1, Len(p)),
                               Append(toks, [kind |-> "class", c |-> c, star |-> FALSE,
                                             ranges |-> parsed.ranges]))
                      Closed(close) ==
                        Class(close, IF close = 0 THEN [ok |-> FALSE, ranges |-> <<>>]
                                     ELSE ClassRanges(SubSeq(p, 2, close - 1), <<>>))
                  IN  Closed(ClosingBracket(p, 2))
             [] c \in {"(", ")"} -> [ok |-> FALSE, toks |-> toks]
             [] c = "." -> RegexTokens(Tail(p), Append(toks, [kind |-> "any", c |-> c, star |-> FALSE]))
             [] OTHER -> RegexTokens(Tail(p), Append(toks, [kind |-> "lit", c |-> c, star |-> FALSE]))

(* new RegExp(pattern, flags): the compiled expression, ok = FALSE when it raises *)
RegExp(pattern, ignoreCase) ==
  LET atStart == pattern # <<>> /\ Head(pattern) = "^"
      p1      == IF atStart THEN Tail(pattern) ELSE pattern
      atEnd   == p1 # <<>> /\ p1[Len(p1)] = "$" /\ (Len(p1) = 1 \/ p1[Len(p1) - 1] # "\\")
      p2      == IF atEnd THEN SubSeq(p1, 1, Len(p1) - 1) ELSE p1
      parsed  == RegexTokens(p2, <<>>)
  IN  [ok |-> parsed.ok, toks |-> parsed.toks, atStart |-> atStart, atEnd |-> atEnd,
       ignoreCase |-> ignoreCase]

TokenMatches(tok, c, ignoreCase) ==
  CASE tok.kind = "any" -> TRUE
    [] tok.kind = "digit" -> c \in DigitChars
    [] tok.kind = "nondigit" -> c \notin DigitChars
    [] tok.kind = "lit" -> IF ignoreCase THEN LowerChar(tok.c) = LowerChar(c) ELSE tok.c = c
    [] tok.kind = "class" ->
         \E k \in 1..Len(tok.ranges) :
           \E x \in (IF ignoreCase THEN {c, LowerChar(c), UpperChar(c)} ELSE {c}) :
             tok.ranges[k].lo <= charCodeAt(x) /\ charCodeAt(x) <= tok.ranges[k].hi

(* Do the tokens from ti on match s from position si (1-based) on? *)
RECURSIVE MatchHere(_, _, _, _)
MatchHere(re, s, ti, si) ==
  IF ti > Len(re.toks) THEN (~re.atEnd \/ si > Len(s))
  ELSE LET tok == re.toks[ti]
       IN  IF tok.star
           THEN MatchHere(re, s, ti + 1, si)
                \/ (si <= Len(s) /\ TokenMatches(tok, s[si], re.ignoreCase)
                    /\ MatchHere(re, s, ti, si + 1))
           ELSE si <= Len(s) /\ TokenMatches(tok, s[si], re.ignoreCase)
                /\ MatchHere(re, s, ti + 1, si + 1)

(* regex.test(s) on a freshly compiled expression: found anywhere in s *)
RegexTest(re, s) ==
  \E si \in 1..(IF re.atStart THEN 1 ELSE Len(s) + 1) : MatchHere(re, s, 1, si)

----------------------------------------------------------------------------
(* DataFilterService                                                        *)
(* A DataFilter is [field, pattern, mode, type, caseSensitive].             *)

K_labelsDot == <<"l", "a", "b", "e", "l", "s", ".">>
K_metadataDot == <<"m", "e", "t", "a", "d", "a", "t", "a", ".">>

Lookup(o, k) == IF k \in DOMAIN o THEN o[k] ELSE Undef

Filter_extractFieldValue(result, fieldPath) ==
  IF fieldPath = K_value THEN result.value
  ELSE IF fieldPath = K_timestamp THEN Num(result.timestamp)
  ELSE IF IsPrefix(K_labelsDot, fieldPath)
       THEN Lookup(result.labels, SubSeq(fieldPath, 8, Len(fieldPath)))
  ELSE IF IsPrefix(K_metadataDot, fieldPath)
       THEN Lookup(result.metadata, SubSeq(fieldPath, 10, Len(fieldPath)))
  ELSE IF TypeofObject(result.value) /\ result.value.t # "null"
       THEN extractNestedValue(result.value, fieldPath)
  ELSE Undef

(* evaluateFilter without the early return for an undefined or null value: *)
(* the value is stringified like any other                                 *)
evaluateFilter_NoNullGuard(fieldValue, filter) ==
  LET stringValue == String(fieldValue)
      pattern == IF filter.caseSensitive THEN filter.pattern ELSE toLowerCase(filter.pattern)
      value   == IF filter.caseSensitive THEN stringValue ELSE toLowerCase(stringValue)
  IN  CASE filter.type = "exact" -> value = pattern
        [] filter.type = "contains" -> IsInfix(pattern, value)
        [] filter.type = "startsWith" -> IsPrefix(pattern, value)
        [] filter.type = "endsWith" -> IsSuffix(pattern, value)
        [] filter.type = "regex" ->
             LET regex == RegExp(pattern, ~filter.caseSensitive)
             IN  regex.ok /\ RegexTest(regex, stringValue)
        [] OTHER -> FALSE

evaluateFilter(fieldValue, filter) ==
  IF fieldValue.t \in {"undef", "null"} THEN FALSE
  ELSE LET stringValue == String(fieldValue)
           pattern == IF filter.caseSensitive THEN filter.pattern ELSE toLowerCase(filter.pattern)
           value   == IF filter.caseSensitive THEN stringValue ELSE toLowerCase(stringValue)
       IN  CASE filter.type = "exact" -> value = pattern
             [] filter.type = "contains" -> IsInfix(pattern, value)
             [] filter.type = "startsWith" -> IsPrefix(pattern, value)
             [] filter.type = "endsWith" -> IsSuffix(pattern, value)
             [] filter.type = "regex" ->
                  LET regex == RegExp(pattern, ~filter.caseSensitive)
                  IN  regex.ok /\ RegexTest(regex, stringValue)
             [] OTHER -> FALSE

(* Does the loop of shouldIncludeResult pass the filters from index i on? *)
RECURSIVE PassesFrom(_, _, _)
PassesFrom(result, filters, i) ==
  IF i > Len(filters) THEN TRUE
  ELSE LET filter  == filters[i]
           matches == evaluateFilter(Filter_extractFieldValue(result, filter.field), filter)
       IN  IF filter.mode = "include" /\ ~matches THEN FALSE
           ELSE IF filter.mode = "exclude" /\ matches THEN FALSE
           ELSE PassesFrom(result, filters, i + 1)

(* shouldIncludeResult that returns as soon as the first filter has passed *)
shouldIncludeResult_FirstRuleOnly(result, filters) == PassesFrom(result, SubSeq(filters, 1, 1), 1)

(* shouldIncludeResult in which the last filter alone decides *)
shouldIncludeResult_LastRuleOnly(result, filters) ==
  PassesFrom(result, SubSeq(filters, Len(filters), Len(filters)), 1)

shouldIncludeResult(result, filters) == PassesFrom(result, filters, 1)

(* filterResults that leaves out the first record: results.slice(1).filter(...) *)
filterResults_SkipsFirst(results, filters) ==
  IF Len(filters) = 0 THEN [ret |-> Ok(results), data |-> results]
  ELSE [ret  |-> Ok(SelectMask(results, [i \in 1..Len(results) |->
                                            i > 1 /\ shouldIncludeResult(results[i], filters)])),
        data |-> results]

(* The array filterResults returns and results after the call *)
filterResults(results, filters) ==
  IF Len(filters) = 0 THEN [ret |-> Ok(results), data |-> results]
  ELSE [ret  |-> Ok(SelectMask(results, [i \in 1..Len(results) |->
                                            shouldIncludeResult(results[i], filters)])),
        data |-> results]

----------------------------------------------------------------------------
(* json-utils: tryParseJSON.  JSON.parse over the JSON texts of this model: *)
(* objects, arrays, strings without escapes, numbers with an optional sign  *)
(* and fraction, true, false and null, with blanks between tokens.  A       *)
(* parser result is [ok, val, pos], pos being the index after the value.    *)

ParseFail == [ok |-> FALSE, val |-> Null, pos |-> 0]
ParseOk(v, p) == [ok |-> TRUE, val |-> v, pos |-> p]

RECURSIVE SkipWs(_, _)
SkipWs(s, i) == IF i <= Len(s) /\ s[i] = " " THEN SkipWs(s, i + 1) ELSE i

(* The index of the closing quote of the string opened before index i, or 0 *)
RECURSIVE ClosingQuote(_, _)
ClosingQuote(s, i) ==
  IF i > Len(s) \/ s[i] = "\\" THEN 0
  ELSE IF s[i] = "\"" THEN i
  ELSE ClosingQuote(s, i + 1)

ParseString(s, i) ==
  IF i > Len(s) \/ s[i] # "\"" THEN ParseFail
  ELSE LET q == ClosingQuote(s, i + 1)
       IN  IF q = 0 THEN ParseFail ELSE ParseOk(Str(SubSeq(s, i + 1, q - 1)), q + 1)

ParseNumber(s, i) ==
  LET neg  == s[i] = "-"
      st   == IF neg THEN i + 1 ELSE i
      il   == DigitPrefixLen(SubSeq(s, st, Len(s)))
      ip   == SubSeq(s, st, st + il - 1)
      dot  == st + il
      fl   == IF dot <= Len(s) /\ s[dot] = "." THEN DigitPrefixLen(SubSeq(s, dot + 1, Len(s))) ELSE 0
      isFr == dot <= Len(s) /\ s[dot] = "."
      mag  == Rat(DigitsToNat(ip) * Pow10(fl) + DigitsToNat(SubSeq(s, dot + 1, dot + fl)), Pow10(fl))
  IN  IF il = 0 \/ (il > 1 /\ ip[1] = "0") \/ (isFr /\ fl = 0) THEN ParseFail
      ELSE ParseOk(IF neg THEN Rat(-mag.n, mag.d) ELSE mag, IF isFr THEN dot + fl + 1 ELSE dot)

LitAt(s, i, lit) == i + Len(lit) - 1 <= Len(s) /\ SubSeq(s, i, i + Len(lit) - 1) = lit

RECURSIVE ParseValue(_, _)
RECURSIVE ParseMembers(_, _, _)
RECURSIVE ParseElements(_, _, _)

ParseValue(s, i) ==
  LET j == SkipWs(s, i)
  IN  IF j > Len(s) THEN ParseFail
      ELSE CASE s[j] = "{" ->
                  LET k == SkipWs(s, j + 1)
                  IN  IF k <= Len(s) /\ s[k] = "}" THEN ParseOk(Obj(EmptyObj), k + 1)
                      ELSE ParseMembers(s, k, EmptyObj)
             [] s[j] = "[" ->
                  LET k == SkipWs(s, j + 1)
                  IN  IF k <= Len(s) /\ s[k] = "]" THEN ParseOk(Arr(<<>>), k + 1)
                      ELSE ParseElements(s, k, <<>>)
             [] s[j] = "\"" -> ParseString(s, j)
             [] s[j] = "-" \/ s[j] \in DigitChars -> ParseNumber(s, j)
             [] LitAt(s, j, <<"t", "r", "u", "e">>) -> ParseOk(Bool(TRUE), j + 4)
             [] LitAt(s, j, <<"f", "a", "l", "s", "e">>) -> ParseOk(Bool(FALSE), j + 5)
             [] LitAt(s, j, <<"n", "u", "l", "l">>) -> ParseOk(Null, j + 4)
             [] OTHER -> ParseFail

ParseMembers(s, i, acc) ==
  LET key   == ParseString(s, SkipWs(s, i))
      colon == SkipWs(s, key.pos)
  IN  IF ~key.ok \/ colon > Len(s) \/ s[colon] # ":" THEN ParseFail
      ELSE LET v == ParseValue(s, colon + 1)
           IN  IF ~v.ok THEN ParseFail
               ELSE LET e == SkipWs(s, v.pos)
                    IN  IF e > Len(s) THEN ParseFail
                        ELSE IF s[e] = "}" THEN ParseOk(Obj(With(acc, key.val.s, v.val)), e + 1)
                        ELSE IF s[e] = "," THEN ParseMembers(s, e + 1, With(acc, key.val.s, v.val))
                        ELSE ParseFail

ParseElements(s, i, acc) ==
  LET v == ParseValue(s, i)
  IN  IF ~v.ok THEN ParseFail
      ELSE LET e == SkipWs(s, v.pos)
           IN  IF e > Len(s) THEN ParseFail
               ELSE IF s[e] = "]" THEN ParseOk(Arr(Append(acc, v.val)), e + 1)
               ELSE IF s[e] = "," THEN ParseElements(s, e + 1, Append(acc, v.val))
               ELSE ParseFail

(* JSON.parse(str), or null when it raises *)
tryParseJSON(str) ==
  LET Parsed(r) == IF r.ok /\ SkipWs(str, r.pos) > Len(str) THEN r.val ELSE Null
  IN  Parsed(ParseValue(str, 1))

----------------------------------------------------------------------------
(* field-formatter: formatFieldValue                                        *)
(* A FieldExtraction is [name, path, type, format, transform]; type and     *)
(* transform are "" and format is <<>> when not set.                        *)
(*                                                                          *)
(* Epoch values are counted in units of 1e9 so that the threshold 1e12 of   *)
(* the source fits the integers of the model checker: the comparison with   *)
(* the threshold and the multiplication by 1000 commute with the unit.      *)

TIMESTAMP_THRESHOLD == 1000

S_TO_MS_MULTIPLIER == 1000

RECURSIVE TrimRight(_)
TrimRight(s) ==
  IF s # <<>> /\ s[Len(s)] = " " THEN TrimRight(SubSeq(s, 1, Len(s) - 1)) ELSE s

trim(s) == TrimRight(TrimLeft(s))

(* new Date(string): the date literals of the model are the four-digit      *)
(* years; every other text gives an Invalid Date.                           *)
DateParse(s) == IF Len(s) = 4 /\ IsAllDigits(s) THEN DateOf(DigitsToNat(s)) ELSE InvalidDate

(* date-fns format(date, pattern): raises a RangeError for an invalid date, *)
(* for an argument that is neither a date nor a number, and for a pattern   *)
(* it does not know (the patterns of the model are "t" and "T").            *)
DateFnsFormat(v, pattern) ==
  IF pattern \notin {<<"t">>, <<"T">>} THEN Throw("RangeError")
  ELSE IF v.t = "date" /\ v.valid THEN Str(formatDate(v.ms, pattern))
  ELSE IF v.t = "num" /\ v.d = 1 THEN Str(formatDate(v.n, pattern))
  ELSE Throw("RangeError")

(* Number.prototype.toFixed(k): the text, or the RangeError it raises for   *)
(* more than 100 digits                                                    *)
toFixed(r, k) ==
  LET mag    == Abs(r.n)
      scaled == (2 * mag * Pow10(k) + r.d) \div (2 * r.d)
      ip     == NatToStr(scaled \div Pow10(k))
      fp     == PadZeros(NatToStr(scaled % Pow10(k)), k)
  IN  IF k > 100 THEN Throw("RangeError")
      ELSE Str((IF r.n < 0 /\ scaled # 0 THEN <<"-">> ELSE <<>>)
               \o ip \o (IF k > 0 THEN <<".">> \o fp ELSE <<>>))

(* format.split('.')[1].length, for a format with a '.': the number of      *)
(* characters between its first '.' and its second one or its end           *)
Decimals(format) ==
  LET Dots == {i \in 1..Len(format) : format[i] = "."}
      first == CHOOSE i \in Dots : \A j \in Dots : i <= j
      Later == {i \in Dots : i > first} \cup {Len(format) + 1}
  IN  (CHOOSE i \in Later : \A j \in Later : i <= j) - first - 1

(* Number(string): the whole trimmed text must be a number; empty gives 0 *)
StringToNumber(s) ==
  LET (* u is the text after the sign, il and fl the numbers of its integer *)
      (* and fraction digits: is u a number as a whole?                      *)
      Whole(u, il, fl) ==
        \/ il = Len(u) /\ il > 0
        \/ il < Len(u) /\ u[il + 1] = "." /\ il + 1 + fl = Len(u) /\ il + fl > 0
      Fraction(u, il) ==
        Whole(u, il,
              IF il < Len(u) /\ u[il + 1] = "." THEN DigitPrefixLen(SubSeq(u, il + 2, Len(u)))
              ELSE 0)
      Unsigned(u) == Fraction(u, DigitPrefixLen(u))
      Trimmed(t) ==
        IF t = <<>> THEN Num(0)
        ELSE IF Unsigned(IF t[1] \in {"-", "+"} THEN Tail(t) ELSE t) THEN parseFloat(t)
        ELSE NaN
  IN  Trimmed(trim(s))

(* Number(v) *)
Number(v) ==
  CASE v.t \in {"num", "nan", "inf"} -> v
    [] v.t = "str" -> StringToNumber(v.s)
    [] v.t = "bool" -> IF v.b THEN Num(1) ELSE Num(0)
    [] v.t = "null" -> Num(0)
    [] v.t = "date" -> IF v.valid THEN Num(v.ms) ELSE NaN
    [] v.t = "arr" -> IF v.a = <<>> THEN Num(0)
                      ELSE IF Len(v.a) = 1 THEN StringToNumber(String(v))
                      ELSE NaN
    [] OTHER -> NaN

TruthyWords == {<<"t", "r", "u", "e">>, <<"1">>, <<"y", "e", "s">>, <<"o", "n">>}

Transformed(value, transform) ==
  CASE transform = "date" ->
         IF value.t = "num"
         THEN DateOf((IF RatLess(Num(TIMESTAMP_THRESHOLD), value) THEN value
                      ELSE RatMul(value, Num(S_TO_MS_MULTIPLIER))).n)
         ELSE IF value.t = "str" THEN DateParse(value.s)
         ELSE value
    [] transform = "uppercase" -> Str(toUpperCase(String(value)))
    [] transform = "lowercase" -> Str(toLowerCase(String(value)))
    [] transform = "trim" -> Str(trim(String(value)))
    [] OTHER -> value

TypeConverted(transformedValue, type) ==
  CASE type = "number" -> Number(transformedValue)
    [] type = "string" -> Str(String(transformedValue))
    [] type = "boolean" ->
         IF transformedValue.t = "str"
         THEN Bool(toLowerCase(transformedValue.s) \in TruthyWords)
         ELSE Bool(Truthy(transformedValue))
    [] OTHER -> transformedValue

(* The value formatFieldValue returns, or the Throw it raises *)
formatFieldValue(value, field) ==
  LET (* format(...) in its try block: the catch returns transformedValue *)
      DateFormatted(formatted, transformedValue) ==
        IF IsThrow(formatted) THEN transformedValue ELSE formatted
      Formatted(transformedValue) ==
        IF field.format # <<>> /\ (field.transform = "date" \/ transformedValue.t = "date")
        THEN DateFormatted(DateFnsFormat(transformedValue, field.format), transformedValue)
        ELSE IF field.format # <<>> /\ transformedValue.t = "num"
                /\ \E i \in 1..Len(field.format) : field.format[i] = "."
        THEN toFixed(transformedValue, Decimals(field.format))
        ELSE TypeConverted(transformedValue, field.type)
  IN  IF value.t \in {"null", "undef"} THEN value
      ELSE Formatted(Transformed(value, field.transform))

----------------------------------------------------------------------------
(* FieldExtractor *)

(* The value extractValue returns, or the Throw formatFieldValue raised *)
extractValue(data, field, existingLabels) ==
  LET Formatted(value) == IF value.t # "undef" THEN formatFieldValue(value, field) ELSE Undef
  IN  Formatted(IF IsPrefix(K_labelsDot, field.path)
                THEN Lookup(existingLabels, SubSeq(field.path, 8, Len(field.path)))
                ELSE IF field.path = K_value
                THEN IF data.t = "obj" /\ K_value \in DOMAIN data.f THEN data.f[K_value] ELSE data
                ELSE IF field.path = K_timestamp
                THEN IF data.t = "obj" THEN Lookup(data.f, K_timestamp) ELSE Undef
                ELSE extractNestedValue(data, field.path))

(* The loop over this.fields that assigns whatever extractValue returned,  *)
(* undefined included                                                      *)
RECURSIVE ExtractLoop_AssignsAlways(_, _, _, _, _)
ExtractLoop_AssignsAlways(data, fields, existingLabels, i, extractedFields) ==
  LET Assigned(extractedValue) ==
        IF IsThrow(extractedValue) THEN extractedValue
        ELSE ExtractLoop_AssignsAlways(data, fields, existingLabels, i + 1,
                                       With(extractedFields, fields[i].name, extractedValue))
  IN  IF i > Len(fields) THEN Obj(extractedFields)
      ELSE Assigned(extractValue(data, fields[i], existingLabels))

(* The loop over this.fields from index i on: the object extractedFields   *)
(* at its end, or the Throw that ended it                                  *)
RECURSIVE ExtractLoop(_, _, _, _, _)
ExtractLoop(data, fields, existingLabels, i, extractedFields) ==
  LET Assigned(extractedValue) ==
        IF IsThrow(extractedValue) THEN extractedValue
        ELSE ExtractLoop(data, fields, existingLabels, i + 1,
                         IF extractedValue.t # "undef"
                         THEN With(extractedFields, fields[i].name, extractedValue)
                         ELSE extractedFields)
  IN  IF i > Len(fields) THEN Obj(extractedFields)
      ELSE Assigned(extractValue(data, fields[i], existingLabels))

(* The object extractFields returns, or the Throw it raises *)
extractFields(value, existingLabels, fields) ==
  LET FromData(data) ==
        IF TypeofObject(data) /\ data.t # "null"
        THEN ExtractLoop(data, fields, existingLabels, 1, EmptyObj)
        ELSE Obj(EmptyObj)
      FromParsed(parsed) == FromData(IF Truthy(parsed) THEN parsed ELSE value)
  IN  IF Len(fields) = 0 THEN Obj(EmptyObj)
      ELSE IF value.t = "str" THEN FromParsed(tryParseJSON(value.s))
      ELSE FromData(value)

(* applyToQueryResult that builds a new record also from an empty extraction *)
applyToQueryResult_AlwaysCopies(result, rawValue, fields) ==
  LET Applied(extractedFields) ==
        IF IsThrow(extractedFields)
        THEN [ret |-> extractedFields, same |-> FALSE, data |-> result, fields |-> extractedFields]
        ELSE [ret  |-> [result EXCEPT !.labels = Spread(result.labels, extractedFields.f),
                                      !.metadata = With(result.metadata, K_extractedFields,
                                                        extractedFields)],
              same |-> FALSE,
              data |-> result,
              fields |-> extractedFields]
  IN  Applied(extractFields(IF Truthy(rawValue) THEN rawValue ELSE result.value,
                            result.labels, fields))

(* What applyToQueryResult returns (ret: the record, or the Throw it       *)
(* raises), whether that is the very object it was given (same), that      *)
(* object after the call (data), and what extractFields returned (fields)  *)
applyToQueryResult(result, rawValue, fields) ==
  LET Applied(extractedFields) ==
        IF IsThrow(extractedFields)
        THEN [ret |-> extractedFields, same |-> FALSE, data |-> result, fields |-> extractedFields]
        ELSE IF Cardinality(DOMAIN extractedFields.f) > 0
        THEN [ret  |-> [result EXCEPT !.labels = Spread(result.labels, extractedFields.f),
                                      !.metadata = With(result.metadata, K_extractedFields,
                                                        extractedFields)],
              same |-> FALSE,
              data |-> result,
              fields |-> extractedFields]
        ELSE [ret |-> result, same |-> TRUE, data |-> result, fields |-> extractedFields]
  IN  Applied(extractFields(IF Truthy(rawValue) THEN rawValue ELSE result.value,
                            result.labels, fields))

----------------------------------------------------------------------------
(* The records, configurations and rules of the model *)

K_service == <<"s", "e", "r", "v", "i", "c", "e">>
K_status == <<"s", "t", "a", "t", "u", "s">>
K_source == <<"s", "o", "u", "r", "c", "e">>
K_level == <<"l", "e", "v", "e", "l">>
K_dur == <<"d", "u", "r">>

S_api == Str(<<"a", "p", "i">>)
S_web == Str(<<"w", "e", "b">>)
S_200 == Str(<<"2", "0", "0">>)
S_500 == Str(<<"5", "0", "0">>)
S_test == Str(<<"t", "e", "s", "t">>)

Labels2(service, status) == [k \in {K_service, K_status} |-> IF k = K_service THEN service ELSE status]

SourceMeta == [k \in {K_source} |-> S_test]

Rec(ts, v, l, m) == [timestamp |-> ts, value |-> v, labels |-> l, metadata |-> m]

(* The four records of the aggregator's test suite (timestamps in minutes) *)
R1 == Rec(1, Num(100), Labels2(S_api, S_200), SourceMeta)
R2 == Rec(2, Num(150), Labels2(S_api, S_200), SourceMeta)
R3 == Rec(3, Num(200), Labels2(S_api, S_500), SourceMeta)
R4 == Rec(4, Num(75), Labels2(S_web, S_200), SourceMeta)

sampleData == <<R1, R2, R3, R4>>

(* A log line that is no number, with an extracted field *)
R5 == Rec(1, Str(<<"n", "o", "t", " ", "a", " ", "n", "u", "m", "b", "e", "r">>),
          [k \in {K_service} |-> S_web],
          With(SourceMeta, K_extractedFields, Obj([k \in {K_dur} |-> Num(7)])))

(* A numeric text, with a numeric label *)
R6 == Rec(2, Str(<<"1", "2">>),
          [k \in {K_service, K_dur} |-> IF k = K_service THEN S_api ELSE Num(5)],
          SourceMeta)

(* A JSON log line: {"level":"ERROR","dur":3} *)
R7 == Rec(3, Str(<<"{", "\"", "l", "e", "v", "e", "l", "\"", ":", "\"", "E", "R", "R", "O", "R", "\"",
                   ",", "\"", "d", "u", "r", "\"", ":", "3", "}">>),
          [k \in {K_service} |-> S_api], SourceMeta)

(* A structured value, without labels and metadata *)
R8 == Rec(0, Obj([k \in {K_level} |-> Str(<<"e", "r", "r", "o", "r">>)]), EmptyObj, EmptyObj)

RecordUniverse == {R1, R5, R6, R7, R8}

Inputs == SeqsUpTo(RecordUniverse, MaxLen) \cup {sampleData}

GB(field) == [field |-> field, dateFormat |-> <<>>]
GBDate(field, dateFormat) == [field |-> field, dateFormat |-> dateFormat]

AggConfig(groupBy, metrics, function, percentile) ==
  [t |-> "config", groupBy |-> groupBy, metrics |-> metrics, function |-> function,
   percentile |-> percentile]

(* "median" is not an aggregation function *)
GlobalConfigs ==
  {AggConfig(<<>>, <<>>, f, Undef) :
     f \in {"sum", "avg", "min", "max", "count", "first", "last", "median", ""}}
  \cup {AggConfig(<<>>, <<>>, "percentile", p) : p \in {Undef, Num(0), Num(50), Num(95), Num(100)}}

GroupBys ==
  {<<GB(K_service)>>, <<GB(K_service), GB(K_status)>>, <<GBDate(K_timestamp, <<"T">>)>>,
   <<GB(K_source), GB(K_dur)>>}

GroupedConfigs ==
  {AggConfig(g, <<>>, f, Undef) : g \in GroupBys, f \in {"sum", "count", "first", "median", ""}}

MetricString(name) == [kind |-> "string", name |-> name]
Metric(name, field, function, percentile) ==
  [kind |-> "config", name |-> name, field |-> field, function |-> function,
   percentile |-> percentile]

N_total == <<"t", "o", "t", "a", "l">>
N_n == <<"n">>
N_x == <<"x">>

MetricLists ==
  {<<MetricString(K_count)>>,
   <<MetricString(K_rate)>>,
   <<MetricString(N_total)>>,
   <<MetricString(K_rate), Metric(N_x, <<>>, "first", Undef)>>,
   <<Metric(N_n, <<>>, "count", Undef)>>,
   <<Metric(N_n, K_dur, "count", Undef), Metric(N_x, K_dur, "sum", Undef)>>,
   <<Metric(N_n, K_value, "count", Undef), Metric(N_x, K_value, "last", Undef)>>,
   <<Metric(N_x, K_dur, "median", Undef)>>,
   <<Metric(N_x, K_timestamp, "max", Undef), Metric(N_n, K_source, "count", Undef)>>,
   <<Metric(N_x, <<>>, "percentile", Num(50))>>,
   <<Metric(N_x, <<>>, "percentile", Num(0))>>}

MetricConfigs ==
  {AggConfig(g, m, "", Undef) : g \in {<<GB(K_service)>>, <<GB(K_source)>>}, m \in MetricLists}
  \cup {AggConfig(<<GB(K_service)>>, <<MetricString(N_total)>>, f, Undef) : f \in {"sum", "median"}}
  \cup {AggConfig(<<>>, <<MetricString(K_count)>>, f, Undef) : f \in {"", "sum"}}

AggConfigs == {Undef} \cup GlobalConfigs \cup GroupedConfigs \cup MetricConfigs

DataFilter(field, pattern, mode, type, caseSensitive) ==
  [field |-> field, pattern |-> pattern, mode |-> mode, type |-> type,
   caseSensitive |-> caseSensitive]

F_labelsService == K_labelsDot \o K_service
F_labelsStatus == K_labelsDot \o K_status
F_metadataSource == K_metadataDot \o K_source

FilterUniverse ==
  {DataFilter(F_labelsService, <<"A", "P", "I">>, "include", "exact", FALSE),
   DataFilter(F_labelsService, <<"A", "P", "I">>, "exclude", "exact", FALSE),
   DataFilter(F_labelsStatus, <<"2">>, "exclude", "startsWith", TRUE),
   DataFilter(K_value, <<"1">>, "include", "contains", FALSE),
   DataFilter(K_level, <<"e", "r", "r", "o", "r">>, "exclude", "exact", TRUE),
   DataFilter(F_metadataSource, <<"s", "t">>, "include", "endsWith", TRUE),
   DataFilter(K_timestamp, <<"^", "[", "1">>, "include", "regex", FALSE),
   DataFilter(F_labelsService, <<"^", "W", ".", "*", "b", "$">>, "exclude", "regex", FALSE)}

FilterTypes == {"exact", "contains", "startsWith", "endsWith", "regex"}

(* Rules on the field 'value' whose pattern fits the text "null" *)
NullPattern(type) ==
  CASE type = "exact" -> <<"n", "u", "l", "l">>
    [] type = "contains" -> <<"u", "l">>
    [] type = "startsWith" -> <<"n", "u">>
    [] type = "endsWith" -> <<"l">>
    [] type = "regex" -> <<"^", "n", ".", "*", "l", "$">>

NullRules ==
  {DataFilter(K_value, IF cs THEN NullPattern(ty) ELSE toUpperCase(NullPattern(ty)), m, ty, cs) :
     ty \in FilterTypes, m \in {"include", "exclude"}, cs \in BOOLEAN}

P_range == <<"[", "a", "-", "Z", "]">>
P_nonDigit == <<"\\", "D">>

RegexRules ==
  {DataFilter(F_labelsService, P_range, "include", "regex", FALSE),
   DataFilter(F_labelsService, P_range, "include", "regex", TRUE),
   DataFilter(F_labelsService, P_range, "exclude", "regex", TRUE),
   DataFilter(K_value, P_nonDigit, "include", "regex", FALSE),
   DataFilter(K_value, P_nonDigit, "include", "regex", TRUE),
   DataFilter(K_value, <<"*">>, "exclude", "regex", FALSE),
   DataFilter(F_labelsService, <<"P">>, "include", "regex", FALSE),
   DataFilter(F_labelsService, <<"^", "A", ".", "*", "i", "$">>, "exclude", "regex", TRUE),
   DataFilter(F_labelsService, <<".", "*">>, "exclude", "regex", FALSE),
   DataFilter(K_value, <<"x">>, "include", "glob", FALSE)}

Opposite(rule) == [rule EXCEPT !.mode = IF @ = "include" THEN "exclude" ELSE "include"]

(* A rule followed by the same rule of the opposite mode *)
ConflictingLists == {<<r, Opposite(r)>> : r \in NullRules \cup RegexRules}

FilterLists ==
  SeqsUpTo(FilterUniverse, 2) \cup {<<r>> : r \in NullRules \cup RegexRules} \cup ConflictingLists

(* Records for a DataFilterService on its own: a text without digits, a     *)
(* text of digits, a null value without labels, and a structured value      *)
F1 == Rec(1, Str(<<"a", "b", "c">>), [k \in {K_service} |-> Str(<<"A", "p", "i">>)], EmptyObj)
F2 == Rec(2, Str(<<"4", "2">>), [k \in {K_service} |-> S_web], SourceMeta)
F3 == Rec(3, Null, EmptyObj, EmptyObj)

FilterRecords == {F1, F2, F3, R8}

FilterInputs == SeqsUpTo(FilterRecords, MaxBatch)

FieldExtraction(name, path, type, format, transform) ==
  [name |-> name, path |-> path, type |-> type, format |-> format, transform |-> transform]

FieldUniverse ==
  {FieldExtraction(K_level, K_level, "", <<>>, "lowercase"),
   FieldExtraction(K_service, K_dur, "string", <<>>, ""),
   FieldExtraction(N_x, F_labelsService, "", <<>>, "uppercase"),
   FieldExtraction(N_n, K_value, "number", <<"0", ".", "0">>, "")}

(* A fixed-decimals format of 101 decimals *)
LongFormat == <<"0", ".">> \o [i \in 1..101 |-> "0"]

P_missing == <<"a", ".", "b">>

ExtraFieldUniverse ==
  {FieldExtraction(N_n, K_dur, "", LongFormat, ""),
   FieldExtraction(K_timestamp, K_timestamp, "", <<>>, ""),
   FieldExtraction(N_x, P_missing, "", <<>>, ""),
   FieldExtraction(K_level, K_value, "", <<>>, ""),
   FieldExtraction(N_x, <<"0">>, "string", <<>>, "")}

FieldLists ==
  SeqsUpTo(FieldUniverse, 2) \cup SeqsUpTo(ExtraFieldUniverse, 2)
  \cup {<<a, b>> : a \in FieldUniverse, b \in ExtraFieldUniverse}

(* Records for a FieldExtractor on its own: a null and an undefined value,  *)
(* a text that is no JSON, a broken JSON text, JSON texts of an object and  *)
(* of a number, an array and an object                                      *)
E1 == Rec(1, Null, [k \in {K_service} |-> S_api], EmptyObj)
E2 == Rec(2, Undef, [k \in {K_service} |-> S_api], EmptyObj)
E4 == Rec(4, Str(<<"{", "\"", "a", "\"", ":">>), [k \in {K_service} |-> S_web], SourceMeta)
E7 == Rec(5, Arr(<<Str(<<"x">>), Num(1)>>), EmptyObj, EmptyObj)
E8 == Rec(6, Obj([k \in {K_level, K_dur, K_value, K_timestamp} |->
                    CASE k = K_level -> Str(<<"W", "a", "r", "n">>)
                      [] k = K_dur -> Rat(3, 2)
                      [] k = K_value -> Null
                      [] k = K_timestamp -> Num(9)]),
          [k \in {K_service} |-> S_api],
          With(SourceMeta, K_extractedFields, Obj([k \in {K_dur} |-> Num(7)])))

ExtractRecords == {E1, E2, R5, E4, R7, R6, E7, E8}

ExtractInputs == SeqsUpTo(ExtractRecords, MaxBatch)

----------------------------------------------------------------------------
(* The state machine: an input batch is given to one of the operations.     *)
(*   input      the array passed to the operation, as it was before         *)
(*   op         the operation that was called ("init" before the call)      *)
(*   cfg        the AggregationConfig of an aggregate call                  *)
(*   rules      the DataFilter list of the DataFilterService                *)
(*   exts       the FieldExtraction list of the FieldExtractor              *)
(*   output     Ok(the records returned) or the Throw raised                *)
(*   inputAfter the array passed to the operation, as it is after the call  *)
(*   pValues, pParam, pResult                                               *)
(*              the arguments and the result of a calculatePercentile call  *)
(*   second     the second filterResults call on the same service: which    *)
(*              array it was given and what it returned                     *)
(*   extracted  per applyToQueryResult call, what its extractFields call    *)
(*              returned and whether the record returned is the one given   *)
(*   nObj, nPath, nResult                                                   *)
(*              the arguments and the result of an extractNestedValue call  *)
(*   fmtCall    the arguments and the result of a formatFieldValue call     *)
(*   mainRun    a run of main: the sources, the environment and the loop    *)
(*   sheetsCall an appendData call: its arguments, the environment and the  *)
(*              requests made to the Sheets API                             *)

NoPercentileCall == pValues = <<>> /\ pParam = 0 /\ pResult = Undef

NoNestedCall == nObj = Undef /\ nPath = <<>> /\ nResult = Undef

NoFormatCall == fmtCall = Undef

NoMainRun == mainRun = Undef

NoSheetsCall == sheetsCall = Undef

Init ==
  /\ input \in Inputs
  /\ op = "init"
  /\ cfg = Undef
  /\ rules = <<>>
  /\ exts = <<>>
  /\ output = Ok(<<>>)
  /\ inputAfter = input
  /\ second = Undef
  /\ extracted = <<>>
  /\ NoFormatCall
  /\ NoMainRun
  /\ NoSheetsCall
  /\ NoPercentileCall
  /\ NoNestedCall

Aggregate ==
  /\ op = "init"
  /\ \E c \in AggConfigs :
       \E r \in {aggregate(input, c)} :
         /\ cfg' = c
         /\ output' = r.ret
         /\ inputAfter' = r.data
  /\ op' = "aggregate"
  /\ UNCHANGED <<input, rules, exts, pValues, pParam, pResult, second, extracted,
                 nObj, nPath, nResult,
                 fmtCall, mainRun, sheetsCall>>

FilterResults ==
  /\ op = "init"
  /\ \E f \in FilterLists :
       \E r \in {filterResults(input, f)} :
         /\ rules' = f
         /\ output' = r.ret
         /\ inputAfter' = r.data
  /\ op' = "filterResults"
  /\ UNCHANGED <<input, cfg, exts, pValues, pParam, pResult, second, extracted,
                 nObj, nPath, nResult,
                 fmtCall, mainRun, sheetsCall>>

(* A second call of filterResults on the same DataFilterService, with the   *)
(* array of the first call or with the array the first call returned        *)
FilterResultsAgain ==
  /\ op = "filterResults"
  /\ \E arg \in {"input", "output"} :
       \E r \in {filterResults(IF arg = "input" THEN inputAfter ELSE output.recs, rules)} :
         second' = [t |-> "call", arg |-> arg, ret |-> r.ret]
  /\ op' = "filterResultsAgain"
  /\ UNCHANGED <<input, cfg, rules, exts, output, inputAfter, pValues, pParam, pResult,
                 extracted, nObj, nPath, nResult,
                 fmtCall, mainRun, sheetsCall>>

(* The calls made by the loop: all of them, or those up to the first that raises *)
CallsMade(applied) ==
  IF \E i \in 1..Len(applied) : IsThrow(applied[i].fields)
  THEN CHOOSE n \in 1..Len(applied) :
         IsThrow(applied[n].fields) /\ \A i \in 1..(n - 1) : ~IsThrow(applied[i].fields)
  ELSE Len(applied)

(* The clients' loop: applyToQueryResult(result, value) on every record; a  *)
(* call that raises ends the loop                                           *)
ApplyToQueryResult ==
  /\ op = "init"
  /\ \E f \in FieldLists :
       \E applied \in {[i \in 1..Len(input) |-> applyToQueryResult(input[i], input[i].value, f)]} :
         \E n \in {CallsMade(applied)} :
           /\ exts' = f
           /\ output' = IF n > 0 /\ IsThrow(applied[n].fields) THEN applied[n].ret
                         ELSE Ok([i \in 1..Len(input) |-> applied[i].ret])
           /\ inputAfter' = [i \in 1..Len(input) |-> applied[i].data]
           /\ extracted' = [i \in 1..n |->
                              [fields |-> applied[i].fields, same |-> applied[i].same]]
  /\ op' = "applyToQueryResult"
  /\ UNCHANGED <<input, cfg, rules, pValues, pParam, pResult, second, nObj, nPath, nResult,
                 fmtCall, mainRun, sheetsCall>>

Next == Aggregate \/ FilterResults \/ ApplyToQueryResult

Spec == Init /\ [][Next]_vars

(* A DataFilterService on its own, called twice *)

InitFilter ==
  /\ input \in FilterInputs
  /\ op = "init"
  /\ cfg = Undef
  /\ rules = <<>>
  /\ exts = <<>>
  /\ output = Ok(<<>>)
  /\ inputAfter = input
  /\ second = Undef
  /\ extracted = <<>>
  /\ NoFormatCall
  /\ NoMainRun
  /\ NoSheetsCall
  /\ NoPercentileCall
  /\ NoNestedCall

NextFilter == FilterResults \/ FilterResultsAgain

SpecFilter == InitFilter /\ [][NextFilter]_vars

(* A FieldExtractor on its own *)

InitExtract ==
  /\ input \in ExtractInputs
  /\ op = "init"
  /\ cfg = Undef
  /\ rules = <<>>
  /\ exts = <<>>
  /\ output = Ok(<<>>)
  /\ inputAfter = input
  /\ second = Undef
  /\ extracted = <<>>
  /\ NoFormatCall
  /\ NoMainRun
  /\ NoSheetsCall
  /\ NoPercentileCall
  /\ NoNestedCall

NextExtract == ApplyToQueryResult

SpecExtract == InitExtract /\ [][NextExtract]_vars

(* extractNestedValue on its own *)

K_user == <<"u", "s", "e", "r">>
K_tags == <<"t", "a", "g", "s">>
K_name == <<"n", "a", "m", "e">>

(* {user: {name: 'x', tags: ['a', 'b']}, dur: 3, level: null} *)
NestedDoc ==
  Obj([k \in {K_user, K_dur, K_level} |->
         CASE k = K_user ->
                Obj([j \in {K_name, K_tags} |->
                       IF j = K_name THEN Str(<<"x">>)
                       ELSE Arr(<<Str(<<"a">>), Str(<<"b">>)>>)])
           [] k = K_dur -> Num(3)
           [] k = K_level -> Null])

(* [{name: 'x'}, [7]] *)
NestedList == Arr(<<Obj([k \in {K_name} |-> Str(<<"x">>)]), Arr(<<Num(7)>>)>>)

NestedObjects ==
  {NestedDoc, NestedList, Obj(EmptyObj), Arr(<<>>), Str(<<"x">>), Num(3), Num(0), Null, Undef,
   Bool(TRUE)}

NestedSegments ==
  {K_user, K_tags, K_name, K_dur, K_level, K_length, K_constructor, <<"0">>, <<"1">>,
   <<"0", "1">>, <<"2">>, <<>>}

(* Paths of one to MaxSegments segments *)
NestedPaths ==
  {Join(segs, <<".">>) : segs \in (SeqsUpTo(NestedSegments, MaxSegments) \ {<<>>})}

InitNested ==
  /\ input = <<>>
  /\ op = "init"
  /\ cfg = Undef
  /\ rules = <<>>
  /\ exts = <<>>
  /\ output = Ok(<<>>)
  /\ inputAfter = <<>>
  /\ second = Undef
  /\ extracted = <<>>
  /\ NoFormatCall
  /\ NoMainRun
  /\ NoSheetsCall
  /\ NoPercentileCall
  /\ nObj \in NestedObjects
  /\ nPath \in NestedPaths
  /\ nResult = Undef

ExtractNestedValue ==
  /\ op = "init"
  /\ op' = "extractNestedValue"
  /\ nResult' = extractNestedValue(nObj, nPath)
  /\ UNCHANGED <<input, cfg, rules, exts, output, inputAfter, pValues, pParam, pResult,
                 second, extracted, nObj, nPath,
                 fmtCall, mainRun, sheetsCall>>

NextNested == ExtractNestedValue

SpecNested == InitNested /\ [][NextNested]_vars

(* calculatePercentile on its own: the numeric values of a bucket and a     *)
(* percentile parameter that applyFunction can hand over (1 to 100)         *)

NumberUniverse == {Num(75), Num(100), Num(150), Num(200), Num(12)}

PercentileValues ==
  (SeqsUpTo(NumberUniverse, MaxLen) \ {<<>>}) \cup {<<Num(100), Num(150), Num(200), Num(75)>>}

PercentileParams == {1, 25, 50, 95, 100}

InitPercentile ==
  /\ input = <<>>
  /\ op = "init"
  /\ cfg = Undef
  /\ rules = <<>>
  /\ exts = <<>>
  /\ output = Ok(<<>>)
  /\ inputAfter = <<>>
  /\ pValues \in PercentileValues
  /\ pParam \in PercentileParams
  /\ pResult = Undef
  /\ second = Undef
  /\ extracted = <<>>
  /\ NoFormatCall
  /\ NoMainRun
  /\ NoSheetsCall
  /\ NoNestedCall

CalculatePercentile ==
  /\ op = "init"
  /\ op' = "calculatePercentile"
  /\ pResult' = calculatePercentile(pValues, pParam).ret
  /\ UNCHANGED <<input, cfg, rules, exts, output, inputAfter, pValues, pParam,
                 second, extracted, nObj, nPath, nResult,
                 fmtCall, mainRun, sheetsCall>>

NextPercentile == CalculatePercentile

SpecPercentile == InitPercentile /\ [][NextPercentile]_vars

(* formatFieldValue on its own: a value as JSON.parse or a label gives it,   *)
(* and a rule with or without a transform, a format and a type               *)

F_fixed2 == <<"0", ".", "0", "0">>

FormatValues ==
  {Num(TIMESTAMP_THRESHOLD - 1), Num(TIMESTAMP_THRESHOLD), Num(TIMESTAMP_THRESHOLD + 1),
   Num(0), Num(2), Rat(3, 2),
   Str(<<"2", "0", "2", "4">>), Str(<<"a", "b", "c">>), Str(<<" ", "Y", "e", "s", " ">>),
   Str(<<"1", "2">>), Bool(TRUE), Null, Undef, Obj(EmptyObj), Arr(<<Num(1)>>)}

FormatRules ==
  {FieldExtraction(N_x, K_value, type, format, transform) :
     type \in {"", "number", "string", "boolean"},
     format \in {<<>>, <<"t">>, F_fixed2, <<"#">>},
     transform \in {"", "date", "uppercase", "lowercase", "trim"}}

InitFormat ==
  /\ input = <<>>
  /\ op = "init"
  /\ cfg = Undef
  /\ rules = <<>>
  /\ exts = <<>>
  /\ output = Ok(<<>>)
  /\ inputAfter = <<>>
  /\ second = Undef
  /\ extracted = <<>>
  /\ NoPercentileCall
  /\ NoNestedCall
  /\ fmtCall \in {[t |-> "call", value |-> v, field |-> f, result |-> Undef] :
                    v \in FormatValues, f \in FormatRules}
  /\ NoMainRun
  /\ NoSheetsCall

FormatFieldValue ==
  /\ op = "init"
  /\ op' = "formatFieldValue"
  /\ fmtCall' = [fmtCall EXCEPT !.result = formatFieldValue(fmtCall.value, fmtCall.field)]
  /\ UNCHANGED <<input, cfg, rules, exts, output, inputAfter, pValues, pParam, pResult,
                 second, extracted, nObj, nPath, nResult, mainRun, sheetsCall>>

NextFormat == FormatFieldValue

SpecFormat == InitFormat /\ [][NextFormat]_vars

(* Grouping on labels whose values hold the separators of the group key   *)
(* or differ only in type                                                   *)

K_a == <<"a">>
K_b == <<"b">>

(* a = 'x|b:y' *)
G1 == Rec(1, Num(1), [k \in {K_a} |-> Str(<<"x", "|", "b", ":", "y">>)], EmptyObj)
(* a = 'x', b = 'y' *)
G2 == Rec(2, Num(2), [k \in {K_a, K_b} |-> IF k = K_a THEN Str(<<"x">>) ELSE Str(<<"y">>)],
          EmptyObj)
(* a = 5 in metadata *)
G3 == Rec(3, Num(3), EmptyObj, [k \in {K_a} |-> Num(5)])
(* a = '5' in metadata *)
G4 == Rec(4, Num(4), EmptyObj, [k \in {K_a} |-> Str(<<"5">>)])
(* a = 'x' in labels, b = 'y' in metadata *)
G5 == Rec(5, Num(5), [k \in {K_a} |-> Str(<<"x">>)], [k \in {K_b} |-> Str(<<"y">>)])
(* b = 'y' *)
G6 == Rec(6, Num(6), [k \in {K_b} |-> Str(<<"y">>)], EmptyObj)

GroupRecords == {G1, G2, G3, G4, G5, G6}

GroupConfigs ==
  {AggConfig(g, <<>>, f, Undef) :
     g \in {<<GB(K_a)>>, <<GB(K_b)>>, <<GB(K_a), GB(K_b)>>}, f \in {"count", "sum", ""}}
  \cup {AggConfig(<<GB(K_a), GB(K_b)>>, <<MetricString(K_count)>>, "", Undef)}

InitGroup ==
  /\ input \in SeqsUpTo(GroupRecords, MaxLen)
  /\ op = "init"
  /\ cfg = Undef
  /\ rules = <<>>
  /\ exts = <<>>
  /\ output = Ok(<<>>)
  /\ inputAfter = input
  /\ second = Undef
  /\ extracted = <<>>
  /\ NoFormatCall
  /\ NoMainRun
  /\ NoSheetsCall
  /\ NoPercentileCall
  /\ NoNestedCall

AggregateGrouped ==
  /\ op = "init"
  /\ \E c \in GroupConfigs :
       \E r \in {aggregate(input, c)} :
         /\ cfg' = c
         /\ output' = r.ret
         /\ inputAfter' = r.data
  /\ op' = "aggregate"
  /\ UNCHANGED <<input, rules, exts, pValues, pParam, pResult, second, extracted,
                 nObj, nPath, nResult,
                 fmtCall, mainRun, sheetsCall>>

NextGroup == AggregateGrouped

SpecGroup == InitGroup /\ [][NextGroup]_vars

(* main: the loop over config.sources.  What the environment does to a      *)
(* source is drawn with the run: its query, its aggregation or its CSV      *)
(* write raises, or all three succeed.  FAIL_ON_ERROR is a text, or "" when *)
(* it is not set.  A run is                                                 *)
(*   [t |-> "run", sources, failOnError, i (the source the loop is at),     *)
(*    processed (the sources processDataSource was called for),             *)
(*    outputFiles (the sources whose file was pushed), pc, exitCode]        *)
(* with pc "loop" inside the loop, "exited" after process.exit and          *)
(* "returned" when main has returned.                                       *)

SourceOutcomes == {"ok", "queryRaises", "aggregateRaises", "writeRaises"}

FailOnErrorValues == {"true", "false", "1", ""}

(* One iteration of the loop with a catch that rethrows whatever            *)
(* FAIL_ON_ERROR is                                                          *)
LoopIteration_AlwaysRethrows(run) ==
  IF run.sources[run.i] = "ok"
  THEN [run EXCEPT !.processed = Append(@, run.i), !.outputFiles = Append(@, run.i),
                   !.i = @ + 1]
  ELSE [run EXCEPT !.processed = Append(@, run.i), !.pc = "exited", !.exitCode = 1]

(* One iteration of the loop: the try block, and the catch block that       *)
(* rethrows into the outer catch (process.exit(1)) or goes on               *)
LoopIteration(run) ==
  IF run.sources[run.i] = "ok"
  THEN [run EXCEPT !.processed = Append(@, run.i), !.outputFiles = Append(@, run.i),
                   !.i = @ + 1]
  ELSE IF run.failOnError = "true"
  THEN [run EXCEPT !.processed = Append(@, run.i), !.pc = "exited", !.exitCode = 1]
  ELSE [run EXCEPT !.processed = Append(@, run.i), !.i = @ + 1]

(* After the loop: process.exit(1) without any output file, else main returns *)
AfterLoop(run) ==
  IF Len(run.outputFiles) = 0 THEN [run EXCEPT !.pc = "exited", !.exitCode = 1]
  ELSE [run EXCEPT !.pc = "returned"]

InitMain ==
  /\ input = <<>>
  /\ op = "init"
  /\ cfg = Undef
  /\ rules = <<>>
  /\ exts = <<>>
  /\ output = Ok(<<>>)
  /\ inputAfter = <<>>
  /\ second = Undef
  /\ extracted = <<>>
  /\ NoPercentileCall
  /\ NoNestedCall
  /\ NoFormatCall
  /\ mainRun \in {[t |-> "run", sources |-> srcs, failOnError |-> f, i |-> 1,
                   processed |-> <<>>, outputFiles |-> <<>>, pc |-> "loop", exitCode |-> 0] :
                    srcs \in (SeqsUpTo(SourceOutcomes, MaxSources) \ {<<>>}),
                    f \in FailOnErrorValues}
  /\ NoSheetsCall

ProcessSource ==
  /\ mainRun.t = "run" /\ mainRun.pc = "loop" /\ mainRun.i <= Len(mainRun.sources)
  /\ mainRun' = LoopIteration(mainRun)
  /\ op' = "main"
  /\ UNCHANGED <<input, cfg, rules, exts, output, inputAfter, pValues, pParam, pResult,
                 second, extracted, nObj, nPath, nResult, fmtCall, sheetsCall>>

FinishMain ==
  /\ mainRun.t = "run" /\ mainRun.pc = "loop" /\ mainRun.i > Len(mainRun.sources)
  /\ mainRun' = AfterLoop(mainRun)
  /\ op' = "main"
  /\ UNCHANGED <<input, cfg, rules, exts, output, inputAfter, pValues, pParam, pResult,
                 second, extracted, nObj, nPath, nResult, fmtCall, sheetsCall>>

NextMain == ProcessSource \/ FinishMain

(* Every awaited call settles (the clients have a timeout), so the loop     *)
(* goes on as long as it can                                                *)
SpecMain == InitMain /\ [][NextMain]_vars /\ WF_vars(NextMain)

(* GoogleSheetsService.appendData.  A call is                              *)
(*   [t |-> "call", enabled (process.env.GOOGLE_SHEETS_ENABLED), config,    *)
(*    csv (the CSV content), fails (what goes wrong: nothing, loading the   *)
(*    credentials, the spreadsheetId check, or one of the API calls),       *)
(*    sheetExists (the spreadsheet has a sheet of the configured name),     *)
(*    calls (the API calls made, in order), done]                           *)

RECURSIVE SplitOn(_, _, _)
SplitOn(s, sep, cur) ==
  IF s = <<>> THEN <<cur>>
  ELSE IF Head(s) = sep THEN <<cur>> \o SplitOn(Tail(s), sep, <<>>)
  ELSE SplitOn(Tail(s), sep, Append(cur, Head(s)))

(* cell.replace(/\\"/g, '"') *)
RECURSIVE UnescapeQuotes(_)
UnescapeQuotes(s) ==
  IF Len(s) >= 2 /\ s[1] = "\\" /\ s[2] = "\"" THEN <<"\"">> \o UnescapeQuotes(Tail(Tail(s)))
  ELSE IF s = <<>> THEN <<>>
  ELSE <<Head(s)>> \o UnescapeQuotes(Tail(s))

CleanCell(cell) ==
  IF cell # <<>> /\ cell[1] = "\"" /\ cell[Len(cell)] = "\""
  THEN UnescapeQuotes(SubSeq(cell, 2, Len(cell) - 1))
  ELSE cell

(* The loop over the characters of a line *)
RECURSIVE ParseCells(_, _, _, _, _)
ParseCells(line, i, result, current, inQuotes) ==
  IF i > Len(line) THEN (IF current # <<>> THEN Append(result, trim(current)) ELSE result)
  ELSE IF line[i] = "\"" /\ (i = 1 \/ line[i - 1] # "\\")
  THEN ParseCells(line, i + 1, result, current, ~inQuotes)
  ELSE IF line[i] = "," /\ ~inQuotes
  THEN ParseCells(line, i + 1, Append(result, trim(current)), <<>>, inQuotes)
  ELSE ParseCells(line, i + 1, result, Append(current, line[i]), inQuotes)

NotBlank(line) == trim(line) # <<>>

CellsOf(line) ==
  [k \in 1..Len(ParseCells(line, 1, <<>>, <<>>, FALSE)) |->
     CleanCell(ParseCells(line, 1, <<>>, <<>>, FALSE)[k])]

parseCsvData(csvContent) ==
  [k \in 1..Len(Filter(SplitOn(csvContent, "\n", <<>>), NotBlank)) |->
     CellsOf(Filter(SplitOn(csvContent, "\n", <<>>), NotBlank)[k])]

DefaultTruncateLimit == 49000

DefaultTruncateSuffix ==
  <<".", ".", ".", "[", "t", "r", "u", "n", "c", "a", "t", "e", "d", "]">>

(* cell.substring(0, n): a negative n counts as 0 *)
Substring0(cell, n) ==
  IF n <= 0 THEN <<>> ELSE IF n >= Len(cell) THEN cell ELSE SubSeq(cell, 1, n)

TruncateCell(cell, limit, suffix) ==
  IF Len(cell) > limit THEN Substring0(cell, limit - Len(suffix)) \o suffix ELSE cell

(* The data of truncateData *)
truncateData(data, config) ==
  [r \in 1..Len(data) |->
     [c \in 1..Len(data[r]) |->
        TruncateCell(data[r][c],
                     IF Truthy(config.truncateLimit) THEN config.truncateLimit.n
                     ELSE DefaultTruncateLimit,
                     IF Truthy(config.truncateSuffix) THEN config.truncateSuffix.s
                     ELSE DefaultTruncateSuffix)]]

N_Sheet1 == <<"S", "h", "e", "e", "t", "1">>

RECURSIVE DoubleQuotes(_)
DoubleQuotes(s) ==
  IF s = <<>> THEN <<>>
  ELSE IF Head(s) = "'" THEN <<"'", "'">> \o DoubleQuotes(Tail(s))
  ELSE <<Head(s)>> \o DoubleQuotes(Tail(s))

escapeSheetName(sheetName) ==
  IF (\E k \in 1..Len(sheetName) : sheetName[k] \in {" ", "'", "!"})
     \/ (sheetName # <<>> /\ sheetName[1] \in DigitChars)
  THEN <<"'">> \o DoubleQuotes(sheetName) \o <<"'">>
  ELSE sheetName

SheetNameOf(config) == IF Truthy(config.sheetName) THEN config.sheetName.s ELSE N_Sheet1

RangeOf(config) == escapeSheetName(SheetNameOf(config)) \o <<"!", "A", "1">>

ApiCall(api, range, values) == [api |-> api, range |-> range, values |-> values]

(* The API calls of createSheetIfNotExists, and whether it raises *)
createSheetIfNotExists(call) ==
  IF call.fails = "get" THEN [calls |-> <<ApiCall("get", <<>>, <<>>)>>, raised |-> TRUE]
  ELSE IF call.sheetExists THEN [calls |-> <<ApiCall("get", <<>>, <<>>)>>, raised |-> FALSE]
  ELSE [calls  |-> <<ApiCall("get", <<>>, <<>>), ApiCall("batchUpdate", <<>>, <<>>)>>,
        raised |-> call.fails = "batchUpdate"]

(* dataToAppend in append mode, sheetData in overwrite mode *)
RowsToSend(config, sheetData) ==
  IF Truthy(config.appendMode)
  THEN (IF ~Truthy(config.includeHeadersOnAppend) /\ Len(sheetData) > 1 THEN Tail(sheetData)
        ELSE sheetData)
  ELSE sheetData

(* The API calls appendData makes, in order; it never raises *)
appendData(call) ==
  LET ValuesCall(rows) ==
        IF Truthy(call.config.appendMode)
        THEN (IF Len(rows) = 0 THEN <<>>
              ELSE <<ApiCall("append", RangeOf(call.config), rows)>>)
        ELSE <<ApiCall("update", RangeOf(call.config), rows)>>
      Upload(sheetData, created) ==
        IF created.raised THEN created.calls
        ELSE created.calls \o ValuesCall(RowsToSend(call.config, sheetData))
      Parsed(rawSheetData) ==
        IF Len(rawSheetData) = 0 THEN <<>>
        ELSE Upload(truncateData(rawSheetData, call.config),
                    IF SheetNameOf(call.config) # N_Sheet1 THEN createSheetIfNotExists(call)
                    ELSE [calls |-> <<>>, raised |-> FALSE])
  IN  IF ~Truthy(call.enabled) THEN <<>>
      ELSE IF call.fails \in {"credentials", "spreadsheetId"} THEN <<>>
      ELSE Parsed(parseCsvData(call.csv))

(* The lines of a CSV file: a header, a row with a quoted cell, a blank line *)
L_header == <<"a", ",", "b">>
L_row == <<"1", ",", "\"", "x", ",", "y", "\"">>
L_blank == <<" ">>

CsvLines == {L_header, L_row, L_blank}

(* Every line of a CSV file ends with a newline *)
RECURSIVE CsvOf(_)
CsvOf(lines) == IF lines = <<>> THEN <<>> ELSE Head(lines) \o <<"\n">> \o CsvOf(Tail(lines))

SheetsEnabledValues == {Undef, Str(<<>>), Str(<<"t", "r", "u", "e">>)}

N_custom == <<"Q", " ", "1">>

SheetsConfigs ==
  {[appendMode |-> a, includeHeadersOnAppend |-> h, sheetName |-> n,
    truncateLimit |-> tr[1], truncateSuffix |-> tr[2]] :
     a \in {Bool(TRUE), Bool(FALSE)}, h \in {Undef, Bool(TRUE), Bool(FALSE)},
     n \in {Undef, Str(N_Sheet1), Str(N_custom)},
     tr \in {<<Undef, Undef>>, <<Num(2), Str(<<"~">>)>>, <<Num(2), Undef>>}}

SheetsFailures == {"none", "credentials", "spreadsheetId", "get", "batchUpdate", "values"}

InitSheets ==
  /\ input = <<>>
  /\ op = "init"
  /\ cfg = Undef
  /\ rules = <<>>
  /\ exts = <<>>
  /\ output = Ok(<<>>)
  /\ inputAfter = <<>>
  /\ second = Undef
  /\ extracted = <<>>
  /\ NoPercentileCall
  /\ NoNestedCall
  /\ NoFormatCall
  /\ NoMainRun
  /\ sheetsCall \in {[t |-> "call", enabled |-> e, config |-> c, csv |-> CsvOf(lines),
                      fails |-> f, sheetExists |-> x, calls |-> <<>>, done |-> FALSE] :
                       e \in SheetsEnabledValues, c \in SheetsConfigs,
                       lines \in SeqsUpTo(CsvLines, MaxRows), f \in SheetsFailures,
                       x \in BOOLEAN}

AppendData ==
  /\ op = "init"
  /\ sheetsCall.t = "call"
  /\ sheetsCall' = [sheetsCall EXCEPT !.calls = appendData(sheetsCall), !.done = TRUE]
  /\ op' = "appendData"
  /\ UNCHANGED <<input, cfg, rules, exts, output, inputAfter, pValues, pParam, pResult,
                 second, extracted, nObj, nPath, nResult, fmtCall, mainRun>>

NextSheets == AppendData

SpecSheets == InitSheets /\ [][NextSheets]_vars

----------------------------------------------------------------------------
(* Vocabulary of the properties *)

IsConfig == cfg.t = "config"

Returned == output.t = "ok"

(* The n-th smallest element of a set of integers *)
NthSmallest(S, n) == CHOOSE i \in S : Cardinality({k \in S : k < i}) = n - 1

(* The subsequence of s at the indices of the set I *)
SubsequenceAt(s, I) == [j \in 1..Cardinality(I) |-> s[NthSmallest(I, j)]]

KeyOf(i) == generateGroupKey(input[i], cfg.groupBy)

(* The input positions at which a group key occurs for the first time *)
FirstOccurrences == {i \in 1..Len(input) : \A j \in 1..(i - 1) : KeyOf(j) # KeyOf(i)}

(* The records of the input that share the key of position i, in input order *)
MembersOf(i) == SubsequenceAt(input, {k \in 1..Len(input) : KeyOf(k) = KeyOf(i)})

(* The numeric reading of a value: a number as it is, a text by its numeric *)
(* prefix, anything else none                                               *)
HasNumeric(v) == v.t = "num" \/ (v.t = "str" /\ parseFloat(v.s).t = "num")
NumericOf(v) == IF v.t = "num" THEN v ELSE parseFloat(v.s)

NumericIdx(recs) == {i \in 1..Len(recs) : HasNumeric(recs[i].value)}

RECURSIVE SumUpTo(_, _)
SumUpTo(recs, n) ==
  IF n = 0 THEN Num(0)
  ELSE IF HasNumeric(recs[n].value) THEN RatAdd(SumUpTo(recs, n - 1), NumericOf(recs[n].value))
  ELSE SumUpTo(recs, n - 1)

SumOf(recs) == SumUpTo(recs, Len(recs))

GroupedPath == IsConfig /\ Len(cfg.groupBy) > 0

OutputValues == [j \in 1..Len(output.recs) |-> output.recs[j].value]

----------------------------------------------------------------------------
(* C1: filterResults returns exactly the records of its input, in input     *)
(* order, that satisfy every rule (an include rule is satisfied by a match, *)
(* an exclude rule by a non-match); with no rule it returns the input.      *)

RuleMatches(r, rule) == evaluateFilter(Filter_extractFieldValue(r, rule.field), rule)

Satisfies(r, rule) ==
  \/ rule.mode = "include" /\ RuleMatches(r, rule)
  \/ rule.mode = "exclude" /\ ~RuleMatches(r, rule)

Survivors == {i \in 1..Len(input) : \A k \in 1..Len(rules) : Satisfies(input[i], rules[k])}

C1_FilterIsConjunction ==
  op = "filterResults" =>
    /\ Returned
    /\ output.recs = SubsequenceAt(input, Survivors)
    /\ (rules = <<>> => output.recs = input)

(* Two rules of different modes that keep some records and drop others, one *)
(* record being dropped by the second rule alone                             *)
C1_Witness ==
  /\ op = "filterResults"
  /\ Len(rules) = 2
  /\ rules[1].mode # rules[2].mode
  /\ Len(output.recs) > 0
  /\ \E i \in 1..Len(input) : Satisfies(input[i], rules[1]) /\ ~Satisfies(input[i], rules[2])

----------------------------------------------------------------------------
(* C2: on the grouped path with a function or a metrics list, aggregate     *)
(* returns one record per distinct group key, in the order in which the     *)
(* keys first occur in the input, each computed from the records of its own *)
(* bucket alone; for sum it is the sum of the bucket's numeric values, and  *)
(* the test suite's data grouped by service and status give 250, 200, 75.   *)

SampleGroupConfig == AggConfig(<<GB(K_service), GB(K_status)>>, <<>>, "sum", Undef)

C2_OneRecordPerKeyInFirstSeenOrder ==
  (op = "aggregate" /\ GroupedPath /\ (cfg.function # "" \/ Len(cfg.metrics) > 0) /\ Returned) =>
    /\ Len(output.recs) = Cardinality(FirstOccurrences)
    /\ \A j \in 1..Len(output.recs) :
         LET members == MembersOf(NthSmallest(FirstOccurrences, j))
         IN  /\ output.recs[j] = aggregateGroup(members, cfg).recs[1]
             /\ (cfg.function = "sum" /\ Len(cfg.metrics) = 0
                   => output.recs[j].value = SumOf(members))
    /\ (input = sampleData /\ cfg = SampleGroupConfig
          => OutputValues = <<Num(250), Num(200), Num(75)>>)

C2_Witness ==
  /\ op = "aggregate"
  /\ input = sampleData
  /\ cfg = SampleGroupConfig
  /\ OutputValues = <<Num(250), Num(200), Num(75)>>

(* Keys that interleave: the first key comes back after a second one *)
C2_WitnessInterleaved ==
  /\ op = "aggregate" /\ GroupedPath /\ cfg.function = "sum" /\ Returned
  /\ Len(input) = 3 /\ KeyOf(1) = KeyOf(3) /\ KeyOf(1) # KeyOf(2)
  /\ Len(output.recs) = 2

----------------------------------------------------------------------------
(* C3: aggregate returns its input when there is no config; with a          *)
(* non-empty groupBy it groups, also when a function is set (one record per *)
(* key, not one for the whole input); otherwise, with a function, the whole *)
(* input is one group: one record for a non-empty input, none for an empty  *)
(* one; and otherwise it returns its input.                                 *)

C3_Dispatch ==
  op = "aggregate" =>
    IF ~IsConfig THEN output = Ok(input)
    ELSE IF Len(cfg.groupBy) > 0
    THEN (Returned /\ (cfg.function # "" \/ Len(cfg.metrics) > 0))
           => Len(output.recs) = Cardinality(FirstOccurrences)
    ELSE IF cfg.function # ""
    THEN IF input = <<>> THEN output = Ok(<<>>)
         ELSE /\ Returned => Len(output.recs) = 1
              /\ cfg.function \in AGGREGATION_FUNCTIONS
                   => Returned /\ output.recs[1].metadata[K_count] = Num(Len(input))
    ELSE output = Ok(input)

(* A groupBy together with a function, giving more than one record *)
C3_Witness ==
  /\ op = "aggregate" /\ GroupedPath /\ cfg.function \in AGGREGATION_FUNCTIONS
  /\ Returned /\ Len(output.recs) >= 2

----------------------------------------------------------------------------
(* C4: whenever the function applied to a bucket is none of the eight       *)
(* aggregation functions, the aggregate call raises, whatever the values of *)
(* the bucket's records.                                                    *)

UnknownFunctionApplied ==
  /\ IsConfig
  /\ input # <<>>
  /\ \/ Len(cfg.groupBy) = 0 /\ cfg.function \notin AGGREGATION_FUNCTIONS \cup {""}
     \/ Len(cfg.groupBy) > 0 /\ Len(cfg.metrics) = 0
          /\ cfg.function \notin AGGREGATION_FUNCTIONS \cup {""}
     \/ Len(cfg.groupBy) > 0
          /\ \E k \in 1..Len(cfg.metrics) :
               cfg.metrics[k].kind = "config"
                 /\ cfg.metrics[k].function \notin AGGREGATION_FUNCTIONS

C4_UnknownFunctionRaises ==
  (op = "aggregate" /\ UnknownFunctionApplied) => IsThrow(output)

----------------------------------------------------------------------------
(* C5: for sum, avg, min, max and count the values are read numerically (a  *)
(* number as it is, a text by numeric parse, anything else not at all), the *)
(* non-numeric ones are left out, and a bucket without any numeric value    *)
(* gives 0: a number, not NaN, and no exception.                            *)

NumericFunctions == {"sum", "avg", "min", "max", "count"}

NumericResultOk(f, recs, v) ==
  LET idx == NumericIdx(recs)
  IN  /\ v.t = "num"
      /\ IF idx = {} THEN v = Num(0)
         ELSE CASE f = "sum" -> v = SumOf(recs)
                [] f = "avg" -> RatMul(v, Num(Cardinality(idx))) = SumOf(recs)
                [] f = "min" -> /\ \E i \in idx : NumericOf(recs[i].value) = v
                                /\ \A i \in idx : RatLeq(v, NumericOf(recs[i].value))
                [] f = "max" -> /\ \E i \in idx : NumericOf(recs[i].value) = v
                                /\ \A i \in idx : RatLeq(NumericOf(recs[i].value), v)
                [] f = "count" -> v = Num(Cardinality(idx))

----------------------------------------------------------------------------
(* C6: with count as the top-level function, the value of an output record  *)
(* is the number of records of its bucket, whatever their values are.       *)

C6_CountIsBucketSize ==
  (op = "aggregate" /\ IsConfig /\ cfg.function = "count" /\ Len(cfg.metrics) = 0
     /\ Returned /\ input # <<>>) =>
    IF Len(cfg.groupBy) = 0
    THEN output.recs[1].value = Num(Len(input))
    ELSE \A j \in 1..Len(output.recs) :
           output.recs[j].value = Num(Len(MembersOf(NthSmallest(FirstOccurrences, j))))

----------------------------------------------------------------------------
(* C7: the input of a metric with a field f is, per record, labels[f] if f  *)
(* is a key of labels, else metadata[f] if f is a key of metadata, else     *)
(* metadata.extractedFields[f] if present, else the value or timestamp when *)
(* f is 'value' or 'timestamp'; records without it are dropped before the   *)
(* function is applied; a count metric is the number of surviving records,  *)
(* and without a field the number of records of the bucket.                 *)

MetricInput(r, f) ==
  CASE f \in DOMAIN r.labels -> r.labels[f]
    [] f \notin DOMAIN r.labels /\ f \in DOMAIN r.metadata -> r.metadata[f]
    [] f \notin DOMAIN r.labels /\ f \notin DOMAIN r.metadata
         /\ K_extractedFields \in DOMAIN r.metadata
         /\ f \in DOMAIN r.metadata[K_extractedFields].f -> r.metadata[K_extractedFields].f[f]
    [] OTHER -> IF f = K_value THEN r.value
                ELSE IF f = K_timestamp THEN Num(r.timestamp)
                ELSE Undef

(* The records of recs that have the field, each with the field as its value *)
Surviving(recs, f) ==
  LET I == {i \in 1..Len(recs) : MetricInput(recs[i], f) # Undef}
  IN  [j \in 1..Cardinality(I) |->
         [recs[NthSmallest(I, j)] EXCEPT !.value = MetricInput(recs[NthSmallest(I, j)], f)]]

MetricOk(m, members, metricValues) ==
  m.kind = "config" =>
    IF m.function = "count"
    THEN metricValues[m.name] = Num(Len(IF m.field # <<>> THEN Surviving(members, m.field)
                                        ELSE members))
    ELSE (m.field # <<>> /\ m.function \in AGGREGATION_FUNCTIONS)
           => metricValues[m.name]
                = applyFunction(Surviving(members, m.field), m.function, m.percentile).ret

----------------------------------------------------------------------------
(* C8: first and last return the value, as it is, of a record with the      *)
(* smallest, respectively largest, timestamp of the bucket, in whatever     *)
(* order the records come; a value that is a mapping gives the empty text.  *)

RawOrEmpty(v) == IF v.t = "obj" THEN Str(<<>>) ELSE v

C8_FirstLastByTimestamp ==
  (op = "aggregate" /\ IsConfig /\ Len(cfg.groupBy) = 0 /\ cfg.function \in {"first", "last"}
     /\ input # <<>>) =>
    /\ Returned
    /\ \E i \in 1..Len(input) :
         /\ \A k \in 1..Len(input) :
              IF cfg.function = "first" THEN input[i].timestamp <= input[k].timestamp
              ELSE input[i].timestamp >= input[k].timestamp
         /\ output.recs[1].value = RawOrEmpty(input[i].value)

(* The earliest record is not the first of the input and holds a mapping *)
C8_Witness ==
  /\ op = "aggregate" /\ IsConfig /\ Len(cfg.groupBy) = 0 /\ cfg.function = "first"
  /\ Len(input) >= 2 /\ input[1].timestamp > input[2].timestamp
  /\ input[2].value.t = "obj"
  /\ output = Ok(output.recs) /\ output.recs[1].value = Str(<<>>)

(* The latest record is not the last of the input and holds a numeric text *)
C8_WitnessLast ==
  /\ op = "aggregate" /\ IsConfig /\ Len(cfg.groupBy) = 0 /\ cfg.function = "last"
  /\ Len(input) = 2 /\ input[1].timestamp > input[2].timestamp
  /\ input[1].value.t = "str"
  /\ output = Ok(output.recs) /\ output.recs[1].value = input[1].value

----------------------------------------------------------------------------
(* C9: calculatePercentile with parameter p over n values: with the values  *)
(* in ascending order and r = (p/100)*(n-1), the result is the element at   *)
(* rank r when r is an integer, and otherwise the elements at floor(r) and  *)
(* ceil(r) interpolated linearly by the fractional part of r; for 75, 100,  *)
(* 150, 200 percentile 50 is 125 and percentile 95 is above 190.            *)

(* The element at rank k (from 0) of the values in ascending order *)
AtRank(vals, k) ==
  CHOOSE x \in {vals[i] : i \in 1..Len(vals)} :
    /\ Cardinality({i \in 1..Len(vals) : RatLess(vals[i], x)}) <= k
    /\ k < Cardinality({i \in 1..Len(vals) : RatLeq(vals[i], x)})

C9_PercentileInterpolation ==
  op = "calculatePercentile" =>
    LET r100 == pParam * (Len(pValues) - 1)
        lo   == AtRank(pValues, r100 \div 100)
        w    == r100 % 100
    IN  /\ pResult.t = "num"
        /\ IF w = 0 THEN pResult = lo
           ELSE RatMul(pResult, Num(100))
                  = RatAdd(RatMul(lo, Num(100 - w)),
                           RatMul(AtRank(pValues, (r100 \div 100) + 1), Num(w)))
        /\ pValues = <<Num(100), Num(150), Num(200), Num(75)>> =>
             /\ pParam = 50 => pResult = Num(125)
             /\ pParam = 95 => RatLess(Num(190), pResult)

C9_Witness ==
  /\ op = "calculatePercentile"
  /\ pValues = <<Num(100), Num(150), Num(200), Num(75)>>
  /\ pParam = 95
  /\ pResult = Rat(385, 2)

----------------------------------------------------------------------------
(* C10: aggregate, filterResults and applyToQueryResult leave their input   *)
(* as it was: the same records, in the same order, with the same timestamp, *)
(* value, labels and metadata.                                              *)

C10_InputNotMutated == op # "init" => inputAfter = input

HasRate == \E k \in 1..Len(cfg.metrics) : cfg.metrics[k] = MetricString(K_rate)

(* The 'rate' metric, which sorts its bucket, on a bucket that is out of order *)
C10_Witness ==
  /\ op = "aggregate" /\ GroupedPath /\ HasRate /\ Returned
  /\ Len(input) >= 2 /\ KeyOf(1) = KeyOf(2) /\ input[1].timestamp > input[2].timestamp
  /\ inputAfter = input

C10_WitnessFilter ==
  /\ op = "filterResults" /\ Len(output.recs) < Len(input) /\ inputAfter = input

C10_WitnessExtract ==
  /\ op = "applyToQueryResult" /\ output.recs # input /\ inputAfter = input

----------------------------------------------------------------------------
(* C11: when the field of a rule resolves to undefined or null for a record, *)
(* the rule does not match, whatever its type and case setting: an include   *)
(* rule rejects the record, an exclude rule does not reject it.              *)

FieldMissing(r, rule) == Filter_extractFieldValue(r, rule.field).t \in {"undef", "null"}

InOutput(r) == \E j \in 1..Len(output.recs) : output.recs[j] = r

C11_MissingFieldNeverMatches ==
  op = "filterResults" =>
    \A i \in 1..Len(input) : \A k \in 1..Len(rules) :
      FieldMissing(input[i], rules[k]) =>
        /\ ~RuleMatches(input[i], rules[k])
        /\ (rules[k].mode = "include" => ~InOutput(input[i]))
        /\ (rules[k].mode = "exclude"
              /\ (\A j \in 1..Len(rules) : j # k => Satisfies(input[i], rules[j]))
            => InOutput(input[i]))

(* A null value under a rule that fits the text "null": rejected by the     *)
(* include rule, kept by the exclude rule                                   *)
C11_Witness ==
  /\ op = "filterResults" /\ Len(rules) = 1 /\ rules[1] \in NullRules
  /\ \E i \in 1..Len(input) :
       /\ input[i].value = Null
       /\ rules[1].mode = "exclude"
       /\ InOutput(input[i])

C11_WitnessInclude ==
  /\ op = "filterResults" /\ Len(rules) = 1 /\ rules[1] \in NullRules
  /\ rules[1].mode = "include" /\ ~rules[1].caseSensitive
  /\ \E i \in 1..Len(input) : input[i].value = Null /\ ~InOutput(input[i])

----------------------------------------------------------------------------
(* C12: a regex rule whose pattern is not a valid regular expression never  *)
(* makes filterResults raise and matches no record: as an include rule it   *)
(* gives the empty output, as an exclude rule it rejects no record.         *)

(* Is the pattern, as it is configured, a regular expression? *)
ValidRegex(pattern) == RegExp(pattern, FALSE).ok

InvalidRegexRule(rule) == rule.type = "regex" /\ ~ValidRegex(rule.pattern)

C12_InvalidRegexNeverMatches ==
  op = "filterResults" =>
    /\ Returned
    /\ \A k \in 1..Len(rules) :
         InvalidRegexRule(rules[k]) =>
           /\ \A i \in 1..Len(input) : ~RuleMatches(input[i], rules[k])
           /\ (rules[k].mode = "include" => output.recs = <<>>)

----------------------------------------------------------------------------
(* C13: a regex rule matches a record exactly when its pattern as           *)
(* configured, compiled ignoring case unless caseSensitive is set, is found *)
(* somewhere in the text of the field value in its original case.           *)

FoundAsConfigured(r, rule) ==
  LET fieldValue == Filter_extractFieldValue(r, rule.field)
      regex == RegExp(rule.pattern, ~rule.caseSensitive)
  IN  regex.ok /\ RegexTest(regex, String(fieldValue))

C13_RegexAsConfigured ==
  op = "filterResults" =>
    \A i \in 1..Len(input) : \A k \in 1..Len(rules) :
      (rules[k].type = "regex" /\ ~FieldMissing(input[i], rules[k])) =>
        /\ RuleMatches(input[i], rules[k]) <=> FoundAsConfigured(input[i], rules[k])
        /\ (Len(rules) = 1 /\ rules[k].mode = "include"
              => (InOutput(input[i]) <=> FoundAsConfigured(input[i], rules[k])))

----------------------------------------------------------------------------
(* C14: when the rule list holds a rule and the same rule of the opposite   *)
(* mode, filterResults returns the empty array for every input, records     *)
(* without the field included.                                              *)

Conflicting == \E j, k \in 1..Len(rules) : rules[k] = Opposite(rules[j])

C14_ConflictingRulesEliminateAll ==
  (op = "filterResults" /\ Conflicting) => output = Ok(<<>>)

(* A record that matches the pair's rule together with one that lacks the field *)
C14_Witness ==
  /\ op = "filterResults" /\ Conflicting /\ output = Ok(<<>>)
  /\ \E i, j \in 1..Len(input) :
       /\ RuleMatches(input[i], rules[1])
       /\ FieldMissing(input[j], rules[1])

----------------------------------------------------------------------------
(* C15: a second filterResults call on the same service returns what the    *)
(* first returned, both when it is given the same array again and when it   *)
(* is given the array the first call returned.                              *)

C15_WitnessSameInput ==
  /\ op = "filterResultsAgain" /\ second.arg = "input"
  /\ Len(output.recs) > 0 /\ Len(output.recs) < Len(input)
  /\ second.ret = output

----------------------------------------------------------------------------
(* Vocabulary of the extraction properties *)

(* The payload of call i: the parsed text when the value is a JSON text,   *)
(* and the value itself otherwise                                          *)
PayloadOf(r) ==
  IF r.value.t = "str" /\ Truthy(tryParseJSON(r.value.s)) THEN tryParseJSON(r.value.s)
  ELSE r.value

(* A text that JSON.parse rejects *)
Unparsable(v) == v.t = "str" /\ ~ParseValue(v.s, 1).ok

LabelsRule(rule) == IsPrefix(K_labelsDot, rule.path)

PathBased(rule) == ~LabelsRule(rule) /\ rule.path \notin {K_value, K_timestamp}

(* What the path of a rule resolves to for a record *)
ResolvedBy(r, rule) ==
  IF LabelsRule(rule) THEN Lookup(r.labels, SubSeq(rule.path, 8, Len(rule.path)))
  ELSE IF rule.path = K_value
       THEN IF PayloadOf(r).t = "obj" /\ K_value \in DOMAIN PayloadOf(r).f
            THEN PayloadOf(r).f[K_value]
            ELSE PayloadOf(r)
  ELSE IF rule.path = K_timestamp
       THEN IF PayloadOf(r).t = "obj" THEN Lookup(PayloadOf(r).f, K_timestamp) ELSE Undef
  ELSE extractNestedValue(PayloadOf(r), rule.path)

ExtractReturned(i) == ~IsThrow(extracted[i].fields)

----------------------------------------------------------------------------
(* C16: extractFields raises for no value (null, undefined, a text that is  *)
(* no JSON, a broken JSON text, a JSON text, an array, an object) and no    *)
(* rule list; for null, undefined and text that does not parse, under       *)
(* path-based rules alone, it returns the empty object.                     *)

C16_ExtractNeverRaises ==
  op = "applyToQueryResult" =>
    /\ Returned
    /\ \A i \in 1..Len(extracted) :
         /\ ExtractReturned(i)
         /\ ((input[i].value.t \in {"null", "undef"} \/ Unparsable(input[i].value))
               /\ (\A j \in 1..Len(exts) : PathBased(exts[j]))
             => extracted[i].fields = Obj(EmptyObj))

----------------------------------------------------------------------------
(* C17: the object extractFields returns has a key only under the name of   *)
(* a rule whose path resolved to a value, and holds there what the          *)
(* formatter returned for that value; no key holds undefined, a rule whose  *)
(* path does not resolve creates no key, and without rules the object is    *)
(* empty.                                                                   *)

(* The rules named k whose path resolves for the record *)
ResolvingRules(r, k) ==
  {j \in 1..Len(exts) : exts[j].name = k /\ ResolvedBy(r, exts[j]).t # "undef"}

C17_OnlyResolvedRulesCreateKeys ==
  op = "applyToQueryResult" =>
    \A i \in 1..Len(extracted) :
      ExtractReturned(i) =>
        /\ \A k \in DOMAIN extracted[i].fields.f :
             /\ extracted[i].fields.f[k].t # "undef"
             /\ \E j \in ResolvingRules(input[i], k) :
                  extracted[i].fields.f[k] = formatFieldValue(ResolvedBy(input[i], exts[j]), exts[j])
        /\ \A j \in 1..Len(exts) :
             ResolvingRules(input[i], exts[j].name) = {} =>
               exts[j].name \notin DOMAIN extracted[i].fields.f
        /\ (exts = <<>> => extracted[i].fields = Obj(EmptyObj))

(* Two rules of different names on a JSON text, one resolving to a value    *)
(* that the formatter changes, the other not resolving: one key             *)
C17_Witness ==
  /\ op = "applyToQueryResult" /\ Len(exts) = 2 /\ exts[1].name # exts[2].name
  /\ \E i \in 1..Len(extracted) :
       /\ ExtractReturned(i)
       /\ input[i].value.t = "str"
       /\ ResolvedBy(input[i], exts[1]).t # "undef"
       /\ ResolvedBy(input[i], exts[2]).t = "undef"
       /\ DOMAIN extracted[i].fields.f = {exts[1].name}
       /\ extracted[i].fields.f[exts[1].name] # ResolvedBy(input[i], exts[1])

----------------------------------------------------------------------------
(* C18: for a text that does not parse as JSON, path-based rules give       *)
(* nothing, while a rule with a 'labels.' path gives the existing label and *)
(* a rule with the path 'value' gives the text, so the names of such rules  *)
(* are keys of the extracted object.                                        *)

C18_LabelAndValueRulesSurviveParseFailure ==
  op = "applyToQueryResult" =>
    \A i \in 1..Len(extracted) :
      (ExtractReturned(i) /\ Unparsable(input[i].value)) =>
        \A j \in 1..Len(exts) :
          /\ (PathBased(exts[j]) /\ ResolvingRules(input[i], exts[j].name) = {}
                => exts[j].name \notin DOMAIN extracted[i].fields.f)
          /\ ((LabelsRule(exts[j]) /\ ResolvedBy(input[i], exts[j]).t # "undef")
                => exts[j].name \in DOMAIN extracted[i].fields.f)
          /\ (exts[j].path = K_value => exts[j].name \in DOMAIN extracted[i].fields.f)

----------------------------------------------------------------------------
(* C19: applyToQueryResult returns the very record it was given when the    *)
(* extraction is empty; otherwise a new record with the same timestamp and  *)
(* value, the old labels overlaid with the extracted fields, and the old    *)
(* metadata with extractedFields set to the extracted object.               *)

C19_ApplyMergesOrReturnsSame ==
  (op = "applyToQueryResult" /\ Returned) =>
    \A i \in 1..Len(input) :
      /\ extracted[i].same <=> DOMAIN extracted[i].fields.f = {}
      /\ (extracted[i].same => output.recs[i] = input[i])
      /\ (~extracted[i].same =>
            /\ output.recs[i].timestamp = input[i].timestamp
            /\ output.recs[i].value = input[i].value
            /\ DOMAIN output.recs[i].labels
                 = DOMAIN input[i].labels \cup DOMAIN extracted[i].fields.f
            /\ \A k \in DOMAIN output.recs[i].labels :
                 output.recs[i].labels[k] =
                   IF k \in DOMAIN extracted[i].fields.f THEN extracted[i].fields.f[k]
                   ELSE input[i].labels[k]
            /\ DOMAIN output.recs[i].metadata
                 = DOMAIN input[i].metadata \cup {K_extractedFields}
            /\ \A k \in DOMAIN output.recs[i].metadata :
                 output.recs[i].metadata[k] =
                   IF k = K_extractedFields THEN extracted[i].fields
                   ELSE input[i].metadata[k])

(* An extracted field that takes the place of a label of the same name, on  *)
(* a record whose metadata held extracted fields before                     *)
C19_Witness ==
  /\ op = "applyToQueryResult" /\ Returned
  /\ \E i \in 1..Len(input) :
       /\ ~extracted[i].same
       /\ K_extractedFields \in DOMAIN input[i].metadata
       /\ input[i].metadata[K_extractedFields] # extracted[i].fields
       /\ \E k \in DOMAIN extracted[i].fields.f \cap DOMAIN input[i].labels :
            extracted[i].fields.f[k] # input[i].labels[k]

(* A non-empty rule list that extracts nothing from one record of the batch *)
C19_WitnessSame ==
  /\ op = "applyToQueryResult" /\ Returned /\ exts # <<>>
  /\ \E i, j \in 1..Len(input) : extracted[i].same /\ ~extracted[j].same

----------------------------------------------------------------------------
(* C20: extractNestedValue takes the segments of the path one by one: on a  *)
(* sequence a segment of digits is an index, on a mapping that has the      *)
(* segment as a key it goes to the key's value, and in every other case     *)
(* (no such key, a primitive or null on the way, a container that is no     *)
(* object) the result is undefined; it never raises.                        *)

(* The walk as the statement describes it, from segment i on *)
RECURSIVE Resolve(_, _, _)
Resolve(value, keys, i) ==
  IF i > Len(keys) THEN value
  ELSE IF value.t = "arr" /\ IsAllDigits(keys[i])
       THEN IF DigitsToNat(keys[i]) < Len(value.a)
            THEN Resolve(value.a[DigitsToNat(keys[i]) + 1], keys, i + 1)
            ELSE Undef
  ELSE IF value.t = "obj" /\ keys[i] \in DOMAIN value.f
       THEN Resolve(value.f[keys[i]], keys, i + 1)
  ELSE Undef

C20_NestedValueWalk ==
  op = "extractNestedValue" =>
    /\ ~IsThrow(nResult)
    /\ nResult = Resolve(nObj, SplitDot(nPath, <<>>), 1)

----------------------------------------------------------------------------
(* C21: the date transform reads a numeric input n as epoch milliseconds    *)
(* when n is at least the threshold (1e12), the threshold itself included,  *)
(* and as epoch seconds, scaled by 1000, when n is below it.                *)

EpochMillis(n) ==
  IF RatLeq(Num(TIMESTAMP_THRESHOLD), n) THEN n ELSE RatMul(n, Num(S_TO_MS_MULTIPLIER))

DateTransformOnly ==
  /\ op = "formatFieldValue"
  /\ fmtCall.value.t = "num"
  /\ fmtCall.field.transform = "date"
  /\ fmtCall.field.format = <<>>
  /\ fmtCall.field.type \in {"", "number"}

C21_DateThreshold ==
  DateTransformOnly =>
    fmtCall.result = IF fmtCall.field.type = "number" THEN EpochMillis(fmtCall.value)
                     ELSE DateOf(EpochMillis(fmtCall.value).n)

----------------------------------------------------------------------------
(* C26: the formatter applies transform, then format, then type coercion,   *)
(* skipping a step only when the rule does not configure it: with a format  *)
(* and a type, the result is the type coercion of the formatted value, and  *)
(* type 'number' gives a number or NaN, never a text.                       *)

(* The format step: a date (or the result of a date transform) rendered by  *)
(* the pattern, or left as it is when the pattern fails; a number with a    *)
(* fixed-decimals format rounded; anything else as it is                    *)
FormatStep(v, field) ==
  IF field.format = <<>> THEN v
  ELSE IF field.transform = "date" \/ v.t = "date"
  THEN (IF IsThrow(DateFnsFormat(v, field.format)) THEN v ELSE DateFnsFormat(v, field.format))
  ELSE IF v.t = "num" /\ (\E i \in 1..Len(field.format) : field.format[i] = ".")
  THEN toFixed(v, Decimals(field.format))
  ELSE v

C26_TransformFormatType ==
  (op = "formatFieldValue" /\ fmtCall.value.t \notin {"null", "undef"}
     /\ fmtCall.field.format # <<>> /\ fmtCall.field.type # "") =>
    /\ fmtCall.result
         = TypeConverted(FormatStep(Transformed(fmtCall.value, fmtCall.field.transform),
                                    fmtCall.field),
                         fmtCall.field.type)
    /\ fmtCall.field.type = "number" => fmtCall.result.t \in {"num", "nan", "inf"}

----------------------------------------------------------------------------
(* C22: every record made by aggregating a bucket (by a function or by a    *)
(* metrics list, of the whole input or of a group) has metadata.count equal *)
(* to the number of records of the bucket, metadata.minTimestamp and        *)
(* metadata.maxTimestamp equal to the smallest and the largest timestamp of *)
(* the bucket, and timestamp equal to minTimestamp; on the grouped path the *)
(* counts add up to the length of the input.                                *)

TimestampSet(members) == {members[i].timestamp : i \in 1..Len(members)}

Smallest(S) == CHOOSE x \in S : \A y \in S : x <= y

Largest(S) == CHOOSE x \in S : \A y \in S : x >= y

SummaryOk(rec, members) ==
  /\ rec.metadata[K_count] = Num(Len(members))
  /\ rec.metadata[K_minTimestamp] = Num(Smallest(TimestampSet(members)))
  /\ rec.metadata[K_maxTimestamp] = Num(Largest(TimestampSet(members)))
  /\ rec.metadata[K_minTimestamp].n <= rec.metadata[K_maxTimestamp].n
  /\ rec.timestamp = rec.metadata[K_minTimestamp].n

(* The buckets are aggregated: a function or a metrics list on the grouped  *)
(* path, a function on the whole input                                      *)
BucketsAggregated ==
  /\ op = "aggregate" /\ IsConfig /\ Returned /\ input # <<>>
  /\ IF Len(cfg.groupBy) > 0 THEN cfg.function # "" \/ Len(cfg.metrics) > 0
     ELSE cfg.function # ""

CountsOf(recs) == [j \in 1..Len(recs) |-> recs[j].metadata[K_count].n]

C22_SummaryMetadata ==
  BucketsAggregated =>
    IF Len(cfg.groupBy) > 0
    THEN /\ \A j \in 1..Len(output.recs) :
              SummaryOk(output.recs[j], MembersOf(NthSmallest(FirstOccurrences, j)))
         /\ SumSeq(CountsOf(output.recs)) = Len(input)
    ELSE /\ Len(output.recs) = 1
         /\ SummaryOk(output.recs[1], input)

(* Metrics with 'rate' over two buckets, one of them with its records out   *)
(* of timestamp order                                                       *)
C22_Witness ==
  /\ BucketsAggregated /\ GroupedPath /\ HasRate
  /\ Len(output.recs) = 2
  /\ Len(input) = 3
  /\ \E i, k \in 1..3 : i < k /\ KeyOf(i) = KeyOf(k) /\ input[i].timestamp > input[k].timestamp
  /\ SumSeq(CountsOf(output.recs)) = 3

(* A function over the whole input, the earliest record not being the first *)
C22_WitnessGlobal ==
  /\ BucketsAggregated /\ ~GroupedPath
  /\ Len(input) = 3 /\ input[1].timestamp > input[3].timestamp
  /\ output.recs[1].timestamp = input[3].timestamp

----------------------------------------------------------------------------
(* C23: on the grouped path with a function and no metrics, the labels of   *)
(* each output record hold, for every groupBy entry, the value the entry    *)
(* resolved to for the bucket (the one used in the group key), wherever it  *)
(* was resolved from, and an aggregation label naming the function.         *)

FunctionOnlyGrouped ==
  /\ op = "aggregate" /\ GroupedPath /\ Len(cfg.metrics) = 0 /\ cfg.function # "" /\ Returned

(* The entry g has a segment in the group key of item *)
ResolvesFor(item, g) == GroupKeyPart(item, g) # <<>>

(* labels hold the value of the segment of g, under the name of the field   *)
(* or under <field>_formatted                                               *)
LabelsCarry(labels, item, g) ==
  \E k \in {g.field, g.field \o K_formatted} \cap DOMAIN labels :
    Segment(g.field, labels[k]) = GroupKeyPart(item, g)[1]

C23_LabelsIncludeGroupValues ==
  FunctionOnlyGrouped =>
    \A j \in 1..Len(output.recs) :
      LET first == input[NthSmallest(FirstOccurrences, j)]
      IN  /\ output.recs[j].labels[K_aggregation] = Str(FuncChars(cfg.function))
          /\ \A k \in 1..Len(cfg.groupBy) :
               ResolvesFor(first, cfg.groupBy[k])
                 => LabelsCarry(output.recs[j].labels, first, cfg.groupBy[k])

----------------------------------------------------------------------------
(* C24: the group key of a record is the concatenation, in groupBy order,   *)
(* of the segments "<field>:<resolved value>" joined by '|', and two        *)
(* records are in the same bucket if and only if their keys are the same    *)
(* text.  As stated, with one segment per groupBy entry, it does not hold:  *)
(* an entry whose field the record does not have contributes no segment.    *)
(* It holds with one segment per entry that resolves for the record.        *)

(* What a groupBy entry resolves to: the timestamp (rendered by dateFormat  *)
(* if there is one), else the label of that name (a number rendered by      *)
(* dateFormat if there is one), else the metadata entry of that name        *)
Resolvable(item, g) ==
  g.field = K_timestamp \/ g.field \in DOMAIN item.labels \/ g.field \in DOMAIN item.metadata

ResolvedValue(item, g) ==
  IF g.field = K_timestamp
  THEN (IF g.dateFormat # <<>> THEN Str(formatDate(item.timestamp, g.dateFormat))
        ELSE Num(item.timestamp))
  ELSE IF g.field \in DOMAIN item.labels
  THEN (IF g.dateFormat # <<>> /\ item.labels[g.field].t = "num"
        THEN Str(formatDate(item.labels[g.field].n, g.dateFormat))
        ELSE item.labels[g.field])
  ELSE IF g.field \in DOMAIN item.metadata THEN item.metadata[g.field]
  ELSE Undef

(* The segments of the entries that resolve, in groupBy order, joined by '|' *)
ExpectedKey(item, groupBy) ==
  Join(SelectMask([k \in 1..Len(groupBy) |->
                     groupBy[k].field \o <<":">> \o String(ResolvedValue(item, groupBy[k]))],
                  [k \in 1..Len(groupBy) |-> Resolvable(item, groupBy[k])]),
       <<"|">>)

SameKey(i, k) == ExpectedKey(input[i], cfg.groupBy) = ExpectedKey(input[k], cfg.groupBy)

FirstOfKey == {i \in 1..Len(input) : \A k \in 1..(i - 1) : ~SameKey(k, i)}

WithKeyOf(i) == SubsequenceAt(input, {k \in 1..Len(input) : SameKey(k, i)})

RECURSIVE Flatten(_)
Flatten(ss) == IF ss = <<>> THEN <<>> ELSE Head(ss) \o Flatten(Tail(ss))

(* The buckets are the classes of records with the same key: aggregated     *)
(* into one record each, or passed through bucket by bucket                 *)
BucketsAreKeyClasses ==
  /\ (cfg.function # "" \/ Len(cfg.metrics) > 0) =>
       /\ Len(output.recs) = Cardinality(FirstOfKey)
       /\ \A j \in 1..Len(output.recs) :
            output.recs[j].metadata[K_count] = Num(Len(WithKeyOf(NthSmallest(FirstOfKey, j))))
  /\ (cfg.function = "" /\ Len(cfg.metrics) = 0) =>
       output.recs = Flatten([j \in 1..Cardinality(FirstOfKey) |->
                                WithKeyOf(NthSmallest(FirstOfKey, j))])

C24_WitnessRegrouped ==
  /\ op = "aggregate" /\ GroupedPath /\ Returned
  /\ cfg.function = "" /\ Len(cfg.metrics) = 0
  /\ output.recs # input

----------------------------------------------------------------------------
(* C25: in the loop over the sources, when a source fails (its query, its   *)
(* aggregation or its CSV write raises) and FAIL_ON_ERROR is not 'true',    *)
(* every later source is still processed and its output written; with       *)
(* FAIL_ON_ERROR 'true' no source is processed after the first failure and  *)
(* the process exits with code 1; when no source gave an output file the    *)
(* process exits with code 1.                                               *)

SourceIdx == 1..Len(mainRun.sources)

FailedSources == {k \in SourceIdx : mainRun.sources[k] # "ok"}

InOrder(S) == [j \in 1..Cardinality(S) |-> NthSmallest(S, j)]

MainEnded == mainRun.pc \in {"exited", "returned"}

(* Nothing is processed after a failure when FAIL_ON_ERROR is 'true' *)
StopsAtFirstFailure ==
  mainRun.failOnError = "true" =>
    \A j \in 1..Len(mainRun.processed) :
      \A k \in FailedSources : mainRun.processed[j] <= k

MainEndOk ==
  /\ IF mainRun.failOnError = "true" /\ FailedSources # {}
     THEN /\ mainRun.processed = InOrder(1..NthSmallest(FailedSources, 1))
          /\ mainRun.pc = "exited" /\ mainRun.exitCode = 1
     ELSE /\ mainRun.processed = InOrder(SourceIdx)
          /\ mainRun.outputFiles = InOrder(SourceIdx \ FailedSources)
  /\ Len(mainRun.outputFiles) = 0 => mainRun.pc = "exited" /\ mainRun.exitCode = 1

C25_MainLoopGoesOnOrStops ==
  /\ [](mainRun.t = "run" => StopsAtFirstFailure)
  /\ <>[](MainEnded /\ MainEndOk)

(* The first source fails, FAIL_ON_ERROR is not 'true', and the two sources *)
(* after it were processed and written                                      *)
C25_Witness ==
  /\ mainRun.t = "run" /\ MainEnded
  /\ mainRun.failOnError # "true"
  /\ Len(mainRun.sources) = 3 /\ FailedSources = {1}
  /\ mainRun.outputFiles = <<2, 3>>
  /\ mainRun.pc = "returned"

(* FAIL_ON_ERROR is 'true' and the second of three sources fails *)
C25_WitnessStops ==
  /\ mainRun.t = "run" /\ MainEnded
  /\ mainRun.failOnError = "true"
  /\ Len(mainRun.sources) = 3 /\ FailedSources = {2}
  /\ mainRun.processed = <<1, 2>> /\ mainRun.exitCode = 1

----------------------------------------------------------------------------
(* C27: on the multi-metric path the labels of a bucket's output record are *)
(* the labels of the bucket's first member in input order, plus the         *)
(* <field>_formatted keys, whatever the metrics list contains ('count' and  *)
(* 'rate' included) and whatever the timestamp order of the bucket is.      *)

MultiMetricPath == op = "aggregate" /\ GroupedPath /\ Len(cfg.metrics) > 0 /\ Returned

(* The labels of input[i], with the _formatted keys of the groupBy entries *)
FirstSeenLabels(i) == FormattedLabels(input[i].labels, input[i], cfg.groupBy, 1)

C27_LabelsOfFirstSeenMember ==
  MultiMetricPath =>
    /\ Len(output.recs) = Cardinality(FirstOccurrences)
    /\ \A j \in 1..Len(output.recs) :
         output.recs[j].labels = FirstSeenLabels(NthSmallest(FirstOccurrences, j))

----------------------------------------------------------------------------
(* C28: a percentile configured in the aggregation config or in a metric is *)
(* the one used: for every configured p from 0 to 100 (p = 0 gives the      *)
(* minimum) the result is the percentile p of the numeric values, and 95 is *)
(* used only when no percentile is configured.                              *)

ConfiguredOr95(percentile) == IF percentile.t = "num" THEN percentile.n ELSE 95

PercentileOf(data, percentile) ==
  calculatePercentile(NumericValues(data), ConfiguredOr95(percentile)).ret

(* function 'percentile' over the whole batch *)
GlobalPercentile ==
  /\ op = "aggregate" /\ IsConfig /\ Returned
  /\ Len(cfg.groupBy) = 0 /\ Len(cfg.metrics) = 0 /\ cfg.function = "percentile"
  /\ Len(NumericValues(input)) > 0

(* one metric with function 'percentile' over each bucket *)
MetricPercentile ==
  /\ MultiMetricPath /\ Len(cfg.metrics) = 1
  /\ cfg.metrics[1].kind = "config" /\ cfg.metrics[1].function = "percentile"
  /\ cfg.metrics[1].field = <<>>

C28_ConfiguredPercentileUsed ==
  /\ GlobalPercentile =>
       /\ Len(output.recs) = 1
       /\ output.recs[1].value = PercentileOf(input, cfg.percentile)
  /\ MetricPercentile =>
       \A j \in 1..Len(output.recs) :
         Len(NumericValues(MembersOf(NthSmallest(FirstOccurrences, j)))) > 0 =>
           output.recs[j].value.f[cfg.metrics[1].name] =
             PercentileOf(MembersOf(NthSmallest(FirstOccurrences, j)), cfg.metrics[1].percentile)

----------------------------------------------------------------------------
(* C30: two records are in the same bucket only if every groupBy entry      *)
(* resolves to the same value for both (absent for both, or present and     *)
(* equal): records that differ in the resolved value of a groupBy field are *)
(* never aggregated together, whatever the values are, texts with ':' or    *)
(* '|' and values of different types included.                              *)

SameResolved(x, y, g) ==
  /\ Resolvable(x, g) = Resolvable(y, g)
  /\ Resolvable(x, g) => ResolvedValue(x, g) = ResolvedValue(y, g)

SameGroupValues(i, k) ==
  \A e \in 1..Len(cfg.groupBy) : SameResolved(input[i], input[k], cfg.groupBy[e])

(* The first record of every class of records with the same resolved values *)
FirstOfGroupValues == {i \in 1..Len(input) : \A k \in 1..(i - 1) : ~SameGroupValues(k, i)}

WithGroupValuesOf(i) == SubsequenceAt(input, {k \in 1..Len(input) : SameGroupValues(k, i)})

C30_BucketsShareGroupValues ==
  (op = "aggregate" /\ GroupedPath /\ Returned) =>
    /\ \A i, k \in 1..Len(input) : KeyOf(i) = KeyOf(k) => SameGroupValues(i, k)
    /\ (cfg.function # "" \/ Len(cfg.metrics) > 0) =>
         /\ Len(output.recs) = Cardinality(FirstOfGroupValues)
         /\ \A j \in 1..Len(output.recs) :
              output.recs[j].metadata[K_count] =
                Num(Len(WithGroupValuesOf(NthSmallest(FirstOfGroupValues, j))))

----------------------------------------------------------------------------
(* C29: in append mode with includeHeadersOnAppend not set, the first row   *)
(* of the CSV content (the header) is never among the rows sent to the      *)
(* append call, for every CSV content that is not empty; in overwrite mode  *)
(* all rows, the header included, are sent to the update call; when         *)
(* GOOGLE_SHEETS_ENABLED is not set no API call is made.                    *)

SheetsDone == sheetsCall.t = "call" /\ sheetsCall.done

(* The rows of the CSV content, as appendData uploads them *)
CsvRows == truncateData(parseCsvData(sheetsCall.csv), sheetsCall.config)

CallsOf(api) == {k \in 1..Len(sheetsCall.calls) : sheetsCall.calls[k].api = api}

AppendWithoutHeaders ==
  /\ SheetsDone /\ Truthy(sheetsCall.config.appendMode)
  /\ sheetsCall.config.includeHeadersOnAppend = Undef
  /\ sheetsCall.csv # <<>>

Overwrite == SheetsDone /\ ~Truthy(sheetsCall.config.appendMode)

(* Nothing stands in the way of the upload *)
UploadReached ==
  /\ Truthy(sheetsCall.enabled)
  /\ sheetsCall.fails \in {"none", "values"}
  /\ Len(CsvRows) > 0

HeaderNeverAppended ==
  AppendWithoutHeaders =>
    \A k \in CallsOf("append") : sheetsCall.calls[k].values = Tail(CsvRows)

AllRowsOverwritten ==
  Overwrite =>
    /\ \A k \in CallsOf("update") : sheetsCall.calls[k].values = CsvRows
    /\ UploadReached => CallsOf("update") # {}

NoCallWhenDisabled ==
  (SheetsDone /\ sheetsCall.enabled = Undef) => sheetsCall.calls = <<>>

C29_SheetsRowsSent == HeaderNeverAppended /\ AllRowsOverwritten /\ NoCallWhenDisabled

====
